---- MODULE Spec2Model ----
(***************************************************************************)
(* BOM automation: PDF parsing (parsers/pdf_parser.py), lookup builders    *)
(* (parsers/color_bom.py, parsers/care_content.py), the fuzzy matcher      *)
(* (validators/matcher.py) and the row filler (validators/filler.py).      *)
(*                                                                         *)
(* A Python str is modelled as a sequence of one-character strings, so     *)
(* that strip, lower, upper, substring tests and the regular expressions   *)
(* of the source are computed character by character.                      *)
(***************************************************************************)
EXTENDS Integers, Sequences, FiniteSets, TLC

(***************************************************************************)
(* Characters and Python str operations                                    *)
(***************************************************************************)
UpperChars ==
  <<"A","B","C","D","E","F","G","H","I","J","K","L","M",
    "N","O","P","Q","R","S","T","U","V","W","X","Y","Z">>

LowerChars ==
  <<"a","b","c","d","e","f","g","h","i","j","k","l","m",
    "n","o","p","q","r","s","t","u","v","w","x","y","z">>

\* the characters of the model in code-point order (Python compares str by code point)
AsciiOrder ==
  <<"\n"," ","%","'","(",")",",","-",".","/",
    "0","1","2","3","4","5","6","7","8","9",":",";">>
  \o UpperChars \o <<"[","]","_">> \o LowerChars

UpperSet == {UpperChars[i] : i \in 1..26}

LowerSet == {LowerChars[i] : i \in 1..26}

AlphaSet == UpperSet \cup LowerSet

DigitSet == {"0","1","2","3","4","5","6","7","8","9"}

\* \w of the re module
WordSet == AlphaSet \cup DigitSet \cup {"_"}

\* \s of the re module and the default set of str.strip / str.split
SpaceSet == {" ", "\n"}

Ord(c) == CHOOSE i \in 1..Len(AsciiOrder) : AsciiOrder[i] = c

LowerC(c) ==
  IF c \in UpperSet THEN LowerChars[CHOOSE i \in 1..26 : UpperChars[i] = c] ELSE c

UpperC(c) ==
  IF c \in LowerSet THEN UpperChars[CHOOSE i \in 1..26 : LowerChars[i] = c] ELSE c

Lower(s) == [i \in 1..Len(s) |-> LowerC(s[i])]

Upper(s) == [i \in 1..Len(s) |-> UpperC(s[i])]

\* s[m-1:n], the slice of s from position m to position n
Slice(s, m, n) ==
  SubSeq(s, IF m < 1 THEN 1 ELSE m, IF n > Len(s) THEN Len(s) ELSE n)

Take(s, n) == Slice(s, 1, n)

Drop(s, n) == Slice(s, n + 1, Len(s))

\* length of the longest prefix of s made of characters of S
SpanLen(s, S) ==
  IF \A i \in 1..Len(s) : s[i] \in S THEN Len(s)
  ELSE (CHOOSE i \in 1..Len(s) : s[i] \notin S /\ \A j \in 1..(i - 1) : s[j] \in S) - 1

\* length of the longest suffix of s made of characters of S
SpanLenR(s, S) ==
  IF \A i \in 1..Len(s) : s[i] \in S THEN Len(s)
  ELSE Len(s) - (CHOOSE i \in 1..Len(s) : s[i] \notin S /\ \A j \in (i + 1)..Len(s) : s[j] \in S)

\* str.lstrip(chars), str.rstrip(chars), str.strip(chars)
LStripSet(s, S) == Drop(s, SpanLen(s, S))

RStripSet(s, S) == Take(s, Len(s) - SpanLenR(s, S))

StripSet(s, S) == RStripSet(LStripSet(s, S), S)

\* str.strip()
Strip(s) == StripSet(s, SpaceSet)

\* sub in s
Contains(s, sub) ==
  \E i \in 1..(Len(s) - Len(sub) + 1) : Slice(s, i, i + Len(sub) - 1) = sub

\* s.startswith(p)
StartsWith(s, p) == Len(p) <= Len(s) /\ Take(s, Len(p)) = p

\* s.find(sub) + 1: the first position of sub in s, 0 when absent
IndexOf(s, sub) ==
  IF Contains(s, sub)
  THEN CHOOSE i \in 1..(Len(s) - Len(sub) + 1) :
         /\ Slice(s, i, i + Len(sub) - 1) = sub
         /\ \A j \in 1..(i - 1) : Slice(s, j, j + Len(sub) - 1) # sub
  ELSE 0

\* s.rfind(sub) + 1: the last position of sub in s, 0 when absent
LastIndexOf(s, sub) ==
  IF Contains(s, sub)
  THEN CHOOSE i \in 1..(Len(s) - Len(sub) + 1) :
         /\ Slice(s, i, i + Len(sub) - 1) = sub
         /\ \A j \in (i + 1)..(Len(s) - Len(sub) + 1) : Slice(s, j, j + Len(sub) - 1) # sub
  ELSE 0

\* s < t for str
RECURSIVE StrLess(_, _)
StrLess(s, t) ==
  IF s = <<>> THEN t # <<>>
  ELSE IF t = <<>> THEN FALSE
  ELSE IF s[1] = t[1] THEN StrLess(Tail(s), Tail(t))
  ELSE Ord(s[1]) < Ord(t[1])

\* the non-empty pieces of s between runs of separator characters:
\* str.split() for Sep = whitespace, and the non-empty results of
\* re.split(r'[\s,/\-]+', s)
RECURSIVE Tokens(_, _)
Tokens(s, Sep) ==
  LET r == Drop(s, SpanLen(s, Sep))
      n == IF \A i \in 1..Len(r) : r[i] \notin Sep THEN Len(r)
           ELSE (CHOOSE i \in 1..Len(r) : r[i] \in Sep /\ \A j \in 1..(i - 1) : r[j] \notin Sep) - 1
  IN  IF r = <<>> THEN <<>> ELSE <<Take(r, n)>> \o Tokens(Drop(r, n), Sep)

SeqToSet(q) == {q[i] : i \in 1..Len(q)}

\* Python's None, float('nan') read from an empty spreadsheet cell; neither is a str
None == <<"None">>

NaN == <<"NaN">>

\* str(x) of a cell value
Str(x) == IF x = NaN THEN <<"n","a","n">> ELSE IF x = None THEN <<"N","o","n","e">> ELSE x

NA == <<"N","/","A">>

(***************************************************************************)
(* validators/matcher.py                                                   *)
(***************************************************************************)
_NOISE_WORDS ==
  {<<"c","o","l">>, <<"c","o","l","o","r">>, <<"c","o","l","o","u","r">>, <<"t","h","e">>, <<"a","n","d">>, <<"w","i","t","h">>, <<"o","f">>, <<"a">>, <<"a","n">>}

_extract_numeric_prefix(value) ==
  LET v == Strip(value)
      a == SpanLen(v, AlphaSet)
      r == Drop(v, a + 1)
  IN  IF a >= 1 /\ Len(v) > a /\ v[a + 1] = "-" /\ SpanLen(r, DigitSet) >= 1
      THEN Take(r, SpanLen(r, DigitSet))
      ELSE Take(v, SpanLen(v, DigitSet))

\* re.sub(r'^[a-z]+-\d+\s*', '', v)
StripAlphaNumPrefix(v) ==
  LET a == SpanLen(v, LowerSet)
      r == Drop(v, a + 1)
      d == SpanLen(r, DigitSet)
  IN  IF a >= 1 /\ Len(v) > a /\ v[a + 1] = "-" /\ d >= 1
      THEN LStripSet(Drop(r, d), SpaceSet)
      ELSE v

\* re.sub(r'^\d+-\s*', '', v)
StripNumPrefix(v) ==
  LET d == SpanLen(v, DigitSet)
  IN  IF d >= 1 /\ Len(v) > d /\ v[d + 1] = "-"
      THEN LStripSet(Drop(v, d + 1), SpaceSet)
      ELSE v

WordSeps == SpaceSet \cup {",", "/", "-"}

_color_words(value) ==
  LET v == StripNumPrefix(StripAlphaNumPrefix(Lower(Strip(value))))
      Keep(t) == Len(t) >= 3 /\ t \notin _NOISE_WORDS
  IN  SelectSeq(Tokens(v, WordSeps), Keep)

\* the raw words of strategy 6
RawWords(s) == {t \in SeqToSet(Tokens(s, WordSeps)) : Len(t) >= 3}

\* the first index of a list of booleans that holds TRUE, 0 when there is none
FirstTrue(flags) ==
  IF \E i \in 1..Len(flags) : flags[i]
  THEN CHOOSE i \in 1..Len(flags) : flags[i] /\ \A j \in 1..(i - 1) : ~flags[j]
  ELSE 0

\* the element of list q at index i, None for i = 0
ItemAt(q, i) == IF i = 0 THEN None ELSE q[i]

\* the first element of list q satisfying P, None when there is none
FirstWhere(q, P(_)) == ItemAt(q, FirstTrue([i \in 1..Len(q) |-> P(q[i])]))

\* scored.sort(reverse=True)[0] of strategy 4 for known word sets: tuple
\* (score_i, ov_i, cw_i) is compared with (score_j, ov_j, cw_j), score_i being
\* ov_i / |cw_words[i]|
BestScored(input_words, cw_words, available_colorways) ==
  LET ov(i) == Cardinality(input_words \cap cw_words[i])
      scored == {i \in 1..Len(available_colorways) : cw_words[i] # {} /\ ov(i) >= 1}
      GE(i, j) ==
        \/ ov(i) * Cardinality(cw_words[j]) > ov(j) * Cardinality(cw_words[i])
        \/ /\ ov(i) * Cardinality(cw_words[j]) = ov(j) * Cardinality(cw_words[i])
           /\ \/ ov(i) > ov(j)
              \/ ov(i) = ov(j) /\ ~StrLess(available_colorways[i], available_colorways[j])
  IN  IF input_words = {} \/ scored = {} THEN None
      ELSE available_colorways[CHOOSE i \in scored : \A j \in scored : GE(i, j)]

\* strategy 4: the first element of scored after scored.sort(reverse=True),
\* scored holding (score, len(overlap), cw) for every candidate with an overlap
BestByOverlap(val, available_colorways) ==
  BestScored(SeqToSet(_color_words(val)),
             [i \in 1..Len(available_colorways) |->
                SeqToSet(_color_words(available_colorways[i]))],
             available_colorways)

NullLike == {<<"n","/","a">>, <<"n","a","n">>, <<"n","o","n","e">>, <<"n","u","l","l">>, <<>>}

\* line 148: color_name of a candidate
ColorName(cw) ==
  IF Contains(cw, <<"-">>) THEN Lower(Drop(cw, IndexOf(cw, <<"-">>))) ELSE Lower(cw)

\* line 149
IsSubstringMatch(val_lower, color_name) ==
  Contains(color_name, val_lower) \/ Contains(val_lower, color_name)

\* line 122
IsSameNumber(input_num, bom_num) == bom_num # <<>> /\ input_num = bom_num

\* the first of the strategies' results that is not None, None if there is none
FirstResult(results) ==
  ItemAt(results, FirstTrue([k \in 1..Len(results) |-> results[k] # None]))

\* the strategies with the colour-word overlap tried before the numeric prefix
StrategiesOverlapFirst(val, val_lower, input_num, val_raw_words, available_colorways) ==
  LET IsExact(cw) == cw = val
      IsCI(cw) == Lower(cw) = val_lower
      SameNum(cw) == IsSameNumber(input_num, _extract_numeric_prefix(cw))
      IsSub(cw) == IsSubstringMatch(val_lower, ColorName(cw))
      Shares(cw) == val_raw_words \cap RawWords(Lower(cw)) # {}
  IN  FirstResult(<<FirstWhere(available_colorways, IsExact),
                    FirstWhere(available_colorways, IsCI),
                    BestByOverlap(val, available_colorways),
                    IF input_num # <<>> THEN FirstWhere(available_colorways, SameNum)
                    ELSE None,
                    FirstWhere(available_colorways, IsSub),
                    FirstWhere(available_colorways, Shares)>>)

\* lines 108-159: the six strategies in order, for val, its lower-case form, its
\* numeric prefix and its raw words
Strategies(val, val_lower, input_num, val_raw_words, available_colorways) ==
  LET IsExact(cw) == cw = val
      IsCI(cw) == Lower(cw) = val_lower
      SameNum(cw) == IsSameNumber(input_num, _extract_numeric_prefix(cw))
      IsSub(cw) == IsSubstringMatch(val_lower, ColorName(cw))
      Shares(cw) == val_raw_words \cap RawWords(Lower(cw)) # {}
  IN  FirstResult(<<FirstWhere(available_colorways, IsExact),
                    FirstWhere(available_colorways, IsCI),
                    IF input_num # <<>> THEN FirstWhere(available_colorways, SameNum)
                    ELSE None,
                    BestByOverlap(val, available_colorways),
                    FirstWhere(available_colorways, IsSub),
                    FirstWhere(available_colorways, Shares)>>)

\* the strategies without the guard before them
Unguarded(val, val_lower, available_colorways) ==
  Strategies(val, val_lower, _extract_numeric_prefix(val), RawWords(val_lower),
             available_colorways)

\* lines 100-159 for val and its lower-case form
Guarded(val, val_lower, available_colorways) ==
  IF val_lower \in NullLike THEN None
  ELSE IF Len(Strip(val)) < 2 THEN None
  ELSE Strategies(val, val_lower, _extract_numeric_prefix(val), RawWords(val_lower),
                  available_colorways)

\* lines 99-159 for val
Stripped(val, available_colorways) == Guarded(val, Lower(val), available_colorways)

normalize_colorway(color_option_value, available_colorways) ==
  IF color_option_value = <<>> \/ color_option_value = None \/ available_colorways = <<>>
  THEN None
  ELSE Stripped(Strip(Str(color_option_value)), available_colorways)

\* the alias table, in the order of the dict
COMPONENT_ALIASES ==
  <<[canonical |-> <<"L","a","b","e","l"," ","1">>,
     aliases |-> <<<<"m","a","i","n"," ","l","a","b","e","l">>, <<"l","a","b","e","l","1">>, <<"l","a","b","e","l"," ","1">>, <<"c","a","r","e"," ","l","a","b","e","l">>>>],
    [canonical |-> <<"L","a","b","e","l"," ","L","o","g","o"," ","1">>,
     aliases |-> <<<<"l","o","g","o"," ","l","a","b","e","l">>, <<"l","a","b","e","l"," ","l","o","g","o">>, <<"l","o","g","o"," ","1">>, <<"a","d","d","i","t","i","o","n","a","l"," ","m","a","i","n"," ","l","a","b","e","l">>>>],
    [canonical |-> <<"S","h","e","l","l"," ","1">>,
     aliases |-> <<<<"s","h","e","l","l">>, <<"m","a","i","n"," ","s","h","e","l","l">>, <<"s","h","e","l","l","1">>, <<"s","h","e","l","l"," ","1">>>>],
    [canonical |-> <<"S","h","e","l","l"," ","2">>,
     aliases |-> <<<<"f","a","u","x"," ","f","u","r">>, <<"f","u","r"," ","s","h","e","l","l">>, <<"s","h","e","l","l"," ","2">>, <<"s","h","e","l","l","2">>>>],
    [canonical |-> <<"I","n","s","u","l","a","t","i","o","n"," ","1">>,
     aliases |-> <<<<"i","n","s","u","l","a","t","i","o","n">>, <<"f","i","l","l">>, <<"p","o","m","p","o","m">>, <<"p","o","m"," ","p","o","m">>>>],
    [canonical |-> <<"H","a","n","g","t","a","g"," ","P","a","c","k","a","g","e"," ","P","a","r","t">>,
     aliases |-> <<<<"h","a","n","g","t","a","g">>, <<"h","a","n","g"," ","t","a","g">>, <<"h","t">>>>],
    [canonical |-> <<"P","a","c","k","a","g","i","n","g"," ","1">>,
     aliases |-> <<<<"s","w","i","n","g"," ","h","o","o","k">>, <<"d","h","-","b","l","m">>, <<"p","a","c","k","a","g","i","n","g"," ","1">>>>],
    [canonical |-> <<"P","a","c","k","a","g","i","n","g"," ","2">>,
     aliases |-> <<<<"p","o","l","y","b","a","g">>, <<"p","o","l","y"," ","b","a","g">>, <<"p","a","c","k","a","g","i","n","g"," ","2">>>>],
    [canonical |-> <<"P","a","c","k","a","g","i","n","g"," ","3">>,
     aliases |-> <<<<"u","p","c"," ","s","t","i","c","k","e","r">>, <<"u","p","c"," ","b","a","g"," ","s","t","i","c","k","e","r">>, <<"p","a","c","k","a","g","i","n","g"," ","3">>>>],
    [canonical |-> <<"P","a","c","k","a","g","i","n","g"," ","4">>,
     aliases |-> <<<<"o","u","t","e","r"," ","c","a","r","t","o","n">>, <<"c","a","r","t","o","n">>, <<"p","a","c","k","a","g","i","n","g"," ","4">>>>]>>

\* lines 167-171: the needle hits the entry, by its canonical name or by one of its aliases
EntryHit(needle, entry) ==
  \/ needle = Lower(entry.canonical)
  \/ \E a \in 1..Len(entry.aliases) :
       \/ needle = entry.aliases[a]
       \/ Contains(needle, entry.aliases[a])
       \/ Contains(entry.aliases[a], needle)

normalize_component(component_name) ==
  IF component_name = <<>> \/ component_name = None THEN component_name
  ELSE LET needle == Lower(Strip(component_name))
           hits == {k \in 1..Len(COMPONENT_ALIASES) : EntryHit(needle, COMPONENT_ALIASES[k])}
       IN  IF hits = {} THEN component_name
           ELSE COMPONENT_ALIASES[CHOOSE k \in hits : \A j \in hits : k <= j].canonical

\* the maximal digit runs of length lo..hi delimited by \b: re.findall(r'\b(\d{lo,hi})\b', s)
CodeStarts(s, lo, hi) ==
  {i \in 1..Len(s) :
     /\ s[i] \in DigitSet
     /\ (i = 1 \/ s[i - 1] \notin WordSet)
     /\ LET n == SpanLen(Drop(s, i - 1), DigitSet)
        IN  n >= lo /\ n <= hi /\ (i + n > Len(s) \/ s[i + n] \notin WordSet)}

\* re.search(r'\b(\d{3,6})\b', s): its group 1, "" when there is no match
FirstCode(s) ==
  LET st == CodeStarts(s, 3, 6)
  IN  IF st = {} THEN <<>>
      ELSE LET i == CHOOSE k \in st : \A m \in st : k <= m
           IN  Slice(s, i, i + SpanLen(Drop(s, i - 1), DigitSet) - 1)

extract_material_code(text) ==
  IF text = <<>> \/ text = None THEN <<>> ELSE FirstCode(Str(text))

IdTrailers == {".", ",", ";", ":", "-", "(", ")"}

extract_id_only(value) ==
  IF value = <<>> \/ value = None \/ value = NA THEN value
  ELSE LET text == Strip(Str(value))
       IN  IF text = <<>> THEN NA
           ELSE RStripSet(Tokens(text, SpaceSet)[1], IdTrailers)


(***************************************************************************)
(* dict and pandas.DataFrame                                               *)
(***************************************************************************)
EmptyDict == [k \in {} |-> <<>>]

\* d.get(k, default)
Get(d, k, default) == IF k \in DOMAIN d THEN d[k] ELSE default

\* d[k] = v
Put(d, k, v) == [x \in DOMAIN d \cup {k} |-> IF x = k THEN v ELSE d[x]]

\* a DataFrame: its column names and its rows, one cell per column
DF(columns, rows) == [columns |-> columns, rows |-> rows]

EmptyDF == DF(<<>>, <<>>)

\* df.empty
IsEmptyDF(df) == Len(df.columns) = 0 \/ Len(df.rows) = 0

\* the position of column name in df, 0 when df has no such column
ColPos(df, name) ==
  IF \E i \in 1..Len(df.columns) : df.columns[i] = name
  THEN CHOOSE i \in 1..Len(df.columns) :
         df.columns[i] = name /\ \A j \in 1..(i - 1) : df.columns[j] # name
  ELSE 0

\* row.get(name, default) for row r of df
RowGet(df, r, name, default) ==
  IF ColPos(df, name) = 0 THEN default ELSE df.rows[r][ColPos(df, name)]

(***************************************************************************)
(* validators/filler.py: helpers                                           *)
(***************************************************************************)
NEW_COLUMNS ==
  <<"Main Label", "Main Label Color", "Main Label Supplier",
    "Additional Main Label", "Additional Main Label Color",
    "Care Label", "Care Label Color", "Care Label Supplier",
    "Content Code", "TP FC", "Care Code",
    "Hangtag", "Hangtag Supplier",
    "Hangtag (RFID)", "Hangtag (RFID) Supplier",
    "RFID Sticker", "RFID Sticker Supplier",
    "UPC Sticker (Polybag)", "UPC Sticker Supplier",
    "Validation Status">>

\* NEW_COLUMNS[:-1]
DerivedColumns == {NEW_COLUMNS[i] : i \in 1..(Len(NEW_COLUMNS) - 1)}

\* the value trimmed, without the "N/A" sentinel
_nv_blank(val) ==
  LET s == Strip(Str(val))
  IN  IF s = <<>> \/ Lower(s) \in {<<"n","o","n","e">>, <<"n","a","n">>, <<>>} THEN <<>> ELSE s

_nv(val) ==
  LET s == Strip(Str(val))
  IN  IF s = <<>> \/ Lower(s) \in {<<"n","o","n","e">>, <<"n","a","n">>, <<>>} THEN NA ELSE s

\* a match of r'\b([A-Z]{1,3}) ([A-Z]{1,3})\b' starts at position i of s
FixSupMatchAt(s, i) ==
  LET u == SpanLen(Drop(s, i - 1), UpperSet)
      j == i + u + 1
      w == SpanLen(Drop(s, j - 1), UpperSet)
  IN  /\ (i = 1 \/ s[i - 1] \notin WordSet)
      /\ u >= 1 /\ u <= 3
      /\ i + u <= Len(s) /\ s[i + u] = " "
      /\ w >= 1 /\ w <= 3
      /\ (j + w > Len(s) \/ s[j + w] \notin WordSet)

\* one re.sub(r'\b([A-Z]{1,3}) ([A-Z]{1,3})\b', r'\1\2', s), from position i on
RECURSIVE FixSupPass(_, _)
FixSupPass(s, i) ==
  IF i > Len(s) THEN <<>>
  ELSE IF FixSupMatchAt(s, i)
       THEN LET u == SpanLen(Drop(s, i - 1), UpperSet)
                w == SpanLen(Drop(s, i + u), UpperSet)
            IN  Slice(s, i, i + u - 1) \o Slice(s, i + u + 1, i + u + w)
                  \o FixSupPass(s, i + u + 1 + w)
       ELSE <<s[i]>> \o FixSupPass(s, i + 1)

\* while prev != s: prev = s; s = re.sub(...)
RECURSIVE FixSupLoop(_)
FixSupLoop(s) ==
  LET t == FixSupPass(s, 1) IN IF t = s THEN s ELSE FixSupLoop(t)

_fix_sup(s) == IF s = <<>> THEN s ELSE Strip(FixSupLoop(s))

\* one component of the component index; {} for a component it does not hold
EmptyComp ==
  [material_code |-> <<>>, description |-> <<>>, usage |-> <<>>,
   colorways |-> EmptyDict, cw_order |-> <<>>]

\* the first value v of list q for which f(v) is not "", "" when there is none
FirstCodeIn(q) ==
  IF \E i \in 1..Len(q) : extract_material_code(q[i]) # <<>>
  THEN extract_material_code(
         q[CHOOSE i \in 1..Len(q) :
             /\ extract_material_code(q[i]) # <<>>
             /\ \A j \in 1..(i - 1) : extract_material_code(q[j]) = <<>>])
  ELSE <<>>

\* the material code of a component with the description tried before the stored code
_get_material_code_desc_first(comp) ==
  LET mc == Strip(Str(comp.material_code))
      desc == Strip(Str(comp.description))
      cw_vals == [i \in 1..Len(comp.cw_order) |-> Str(comp.colorways[comp.cw_order[i]])]
  IN  IF desc # <<>> /\ extract_material_code(desc) # <<>>
      THEN extract_material_code(desc)
      ELSE IF mc # <<>> /\ mc \notin {<<>>, <<"N","/","A">>, <<"n","a","n">>, <<"n","o","n","e">>} THEN mc
           ELSE FirstCodeIn(cw_vals)

_get_material_code_for_comp(comp) ==
  LET mc == Strip(Str(comp.material_code))
      desc == Strip(Str(comp.description))
      cw_vals == [i \in 1..Len(comp.cw_order) |-> Str(comp.colorways[comp.cw_order[i]])]
  IN  IF mc # <<>> /\ mc \notin {<<>>, <<"N","/","A">>, <<"n","a","n">>, <<"n","o","n","e">>} THEN mc
      ELSE IF desc # <<>> /\ extract_material_code(desc) # <<>>
           THEN extract_material_code(desc)
           ELSE FirstCodeIn(cw_vals)

\* a supplier cell usable as a result: non-empty and not the text of a missing value
UsableSupplier(sup) == sup # <<>> /\ Lower(sup) \notin {<<>>, <<"n","a","n">>, <<"n","o","n","e">>}

\* re.sub(r'[^\d]', '', s)
DigitsOf(s) == LET IsD(c) == c \in DigitSet IN SelectSeq(s, IsD)

\* _find_supplier._cell_contains_code
_cell_contains_code(cell_str, code, code_stripped) ==
  LET s == Strip(Str(cell_str))
  IN  IF s = <<>> \/ Lower(s) \in {<<"n","a","n">>, <<"n","o","n","e">>, <<>>} THEN FALSE
      ELSE \/ Contains(s, code)
           \/ code_stripped # <<>> /\ Contains(s, code_stripped)
           \/ DigitsOf(s) = code
           \/ code_stripped # <<>> /\ DigitsOf(s) = code_stripped

\* the first column whose lower-cased name contains "supplier" or "vendor", 0 if none
SupplierColPos(df) ==
  LET Is(i) == \/ Contains(Lower(Str(df.columns[i])), <<"s","u","p","p","l","i","e","r">>)
               \/ Contains(Lower(Str(df.columns[i])), <<"v","e","n","d","o","r">>)
  IN  IF \E i \in 1..Len(df.columns) : Is(i)
      THEN CHOOSE i \in 1..Len(df.columns) : Is(i) /\ \A j \in 1..(i - 1) : ~Is(j)
      ELSE 0

\* the supplier cell of a row as it is left unrepaired
RawSupplierCell(cell) == Strip(Str(cell))

\* the supplier cell of a row, stripped and not repaired
SupplierCellRaw(cell) == Strip(Str(cell))

\* line 115: the supplier cell of a row, repaired
SupplierCell(cell) == _fix_sup(Strip(Str(cell)))

_find_supplier(costing_df, code0) ==
  IF IsEmptyDF(costing_df) \/ code0 = <<>> \/ code0 = NA THEN NA
  ELSE
    LET code == Strip(Str(code0))
        code_stripped == LStripSet(code, {"0"})
        sp == SupplierColPos(costing_df)
        sup(r) == SupplierCell(costing_df.rows[r][sp])
        \* row r has the code in a non-supplier cell and a usable supplier
        Hit(r) ==
          /\ \E c \in 1..Len(costing_df.columns) :
               /\ costing_df.columns[c] # costing_df.columns[sp]
               /\ _cell_contains_code(Str(costing_df.rows[r][c]), code, code_stripped)
          /\ UsableSupplier(sup(r))
    IN  IF sp = 0 THEN NA
        ELSE IF \E r \in 1..Len(costing_df.rows) : Hit(r)
             THEN sup(CHOOSE r \in 1..Len(costing_df.rows) :
                        Hit(r) /\ \A q \in 1..(r - 1) : ~Hit(q))
             ELSE NA

\* validate_and_fill.resolve_supplier: the value it returns
resolve_supplier(supplier_lookup, costing_detail, mat_code) ==
  IF mat_code = <<>> \/ mat_code = NA THEN NA
  ELSE LET cached == Get(supplier_lookup, mat_code, <<>>)
       IN  IF UsableSupplier(cached) THEN _fix_sup(cached)
           ELSE _find_supplier(costing_detail, mat_code)

\* supplier_lookup after a call that stores the result of the scan over a usable entry too
resolve_supplier_cache_overwrite(supplier_lookup, costing_detail, mat_code) ==
  IF mat_code = <<>> \/ mat_code = NA THEN supplier_lookup
  ELSE LET found == _find_supplier(costing_detail, mat_code)
       IN  IF found # NA THEN Put(supplier_lookup, mat_code, found)
           ELSE supplier_lookup

\* validate_and_fill.resolve_supplier: supplier_lookup after the call
resolve_supplier_cache(supplier_lookup, costing_detail, mat_code) ==
  IF mat_code = <<>> \/ mat_code = NA THEN supplier_lookup
  ELSE LET cached == Get(supplier_lookup, mat_code, <<>>)
           found == _find_supplier(costing_detail, mat_code)
       IN  IF UsableSupplier(cached) THEN supplier_lookup
           ELSE IF found # NA THEN Put(supplier_lookup, mat_code, found)
           ELSE supplier_lookup

\* the selection taken whole as the component name, without display id
split_comp_whole(sel) ==
  <<(IF sel # <<>> /\ sel # None THEN Str(sel) ELSE <<>>), <<>>>>

\* validate_and_fill.split_comp
split_comp(sel) ==
  IF sel # <<>> /\ sel # None /\ Contains(Str(sel), <<" ","-"," ">>)
  THEN LET s == Str(sel)
           p == LastIndexOf(s, <<" ","-"," ">>)
       IN  <<Strip(Take(s, p - 1)), Strip(Drop(s, p + 2))>>
  ELSE <<(IF sel # <<>> /\ sel # None THEN Str(sel) ELSE <<>>), <<>>>>

\* s.split("-")[0]
BeforeDash(s) == IF Contains(s, <<"-">>) THEN Take(s, IndexOf(s, <<"-">>) - 1) ELSE s

\* cw_num of validate_and_fill
CwNum(matched_cw) ==
  IF Contains(matched_cw, <<"-">>) THEN Strip(BeforeDash(matched_cw))
  ELSE IF Contains(matched_cw, <<" ">>) THEN Tokens(matched_cw, SpaceSet)[1]
  ELSE matched_cw

\* a colour cell usable as a result in get_color_from_spec._lookup_in_df
UsableColor(v) == v # <<>> /\ Lower(v) \notin {<<"n","o","n","e">>, <<"n","a","n">>, <<"s","t","o","c","k">>, <<"a","r","t","w","o","r","k">>, <<>>}

\* validate_and_fill.get_color_from_spec._lookup_in_df
_lookup_in_df(df, component_name, matched_cw) ==
  IF IsEmptyDF(df) THEN <<>>
  ELSE
    LET cw_prefix == IF Contains(matched_cw, <<"-">>) THEN Strip(BeforeDash(matched_cw))
                     ELSE matched_cw
        lookup_name ==
          IF Contains(component_name, <<" ","-"," ">>)
          THEN Strip(Take(component_name, IndexOf(component_name, <<" ","-"," ">>) - 1))
          ELSE component_name
        IsRow(r) == df.rows[r][1] = lookup_name
        r0 == CHOOSE r \in 1..Len(df.rows) : IsRow(r) /\ \A q \in 1..(r - 1) : ~IsRow(q)
        IsCwCol(c) == /\ c >= 2
                      /\ df.columns[c] # <<>>
                      /\ ~StartsWith(Str(df.columns[c]), <<"c","o","l","_">>)
        val(c) == Strip(Str(df.rows[r0][c]))
        Exact(c) == IsCwCol(c) /\ df.columns[c] = matched_cw
        Pref(c) == /\ IsCwCol(c)
                   /\ Strip(BeforeDash(Str(df.columns[c]))) = cw_prefix
                   /\ UsableColor(val(c))
    IN  IF ~\E r \in 1..Len(df.rows) : IsRow(r) THEN <<>>
        ELSE IF /\ \E c \in 1..Len(df.columns) : Exact(c)
                /\ UsableColor(val(ColPos(df, matched_cw)))
             THEN val(ColPos(df, matched_cw))
        ELSE IF \E c \in 1..Len(df.columns) : Pref(c)
             THEN val(CHOOSE c \in 1..Len(df.columns) : Pref(c) /\ \A d \in 1..(c - 1) : ~Pref(d))
        ELSE <<>>

\* validate_and_fill.get_color_from_spec
get_color_from_spec(bom_data, component_name, matched_cw) ==
  IF component_name = <<>> THEN <<>>
  ELSE IF _lookup_in_df(bom_data.color_bom, component_name, matched_cw) # <<>>
       THEN _lookup_in_df(bom_data.color_bom, component_name, matched_cw)
       ELSE _lookup_in_df(bom_data.color_specification, component_name, matched_cw)

(***************************************************************************)
(* parsers/color_bom.py                                                    *)
(***************************************************************************)
\* str.isdigit()
IsDigitStr(t) == t # <<>> /\ \A i \in 1..Len(t) : t[i] \in DigitSet

\* colorway_cols: the columns that include '-' after a number prefix
IsColorwayCol(c) == Contains(c, <<"-">>) /\ IsDigitStr(BeforeDash(c))

\* the material code token of a Details cell
DetailsCode(details) ==
  LET rep == [i \in 1..Len(details) |->
                IF details[i] = "[" THEN "(" ELSE IF details[i] = "]" THEN ")" ELSE details[i]]
      toks == Tokens(rep, SpaceSet)
      t(i) == StripSet(toks[i], {"(", ")", " ", ",", ";"})
      Ok(i) == IsDigitStr(t(i)) /\ Len(t(i)) >= 3 /\ Len(t(i)) <= 6
  IN  IF \E i \in 1..Len(toks) : Ok(i)
      THEN t(CHOOSE i \in 1..Len(toks) : Ok(i) /\ \A j \in 1..(i - 1) : ~Ok(j))
      ELSE <<>>

extract_color_bom_lookup(color_bom_df) ==
  IF IsEmptyDF(color_bom_df)
  THEN [SAP_codes |-> EmptyDict, SAP_keys |-> <<>>, components |-> EmptyDict]
  ELSE
    LET df == DF([i \in 1..Len(color_bom_df.columns) |-> Strip(color_bom_df.columns[i])],
                 color_bom_df.rows)
        colorway_cols == SelectSeq(df.columns, IsColorwayCol)
        hasComp == ColPos(df, <<"C","o","m","p","o","n","e","n","t">>) # 0
        IsSap(r) == Contains(Lower(RowGet(df, r, <<"C","o","m","p","o","n","e","n","t">>, <<>>)), <<"s","a","p"," ","m","a","t","e","r","i","a","l"," ","c","o","d","e">>)
        sap_r == IF hasComp /\ \E r \in 1..Len(df.rows) : IsSap(r)
                 THEN CHOOSE r \in 1..Len(df.rows) : IsSap(r) /\ \A q \in 1..(r - 1) : ~IsSap(q)
                 ELSE 0
        HasSapVal(cw) == sap_r # 0 /\ Strip(Str(RowGet(df, sap_r, cw, <<>>))) # <<>>
        SAP_keys == SelectSeq(colorway_cols, HasSapVal)
        component_col == IF hasComp THEN <<"C","o","m","p","o","n","e","n","t">> ELSE df.columns[1]
        comp(r) == Strip(Str(RowGet(df, r, component_col, <<>>)))
        IsComp(r) == comp(r) # <<>> /\ ~Contains(Lower(comp(r)), <<"s","a","p"," ","m","a","t","e","r","i","a","l"," ","c","o","d","e">>)
        details(r) == IF ColPos(df, <<"D","e","t","a","i","l","s">>) # 0
                      THEN Strip(Str(RowGet(df, r, <<"D","e","t","a","i","l","s">>, <<>>))) ELSE <<>>
        usage(r) == IF ColPos(df, <<"U","s","a","g","e">>) # 0
                    THEN Strip(Str(RowGet(df, r, <<"U","s","a","g","e">>, <<>>))) ELSE <<>>
        \* the last row naming a component is the one the dict keeps
        last(name) == CHOOSE r \in 1..Len(df.rows) :
                        /\ IsComp(r) /\ comp(r) = name
                        /\ \A q \in (r + 1)..Len(df.rows) : ~(IsComp(q) /\ comp(q) = name)
    IN  [SAP_codes |-> [cw \in SeqToSet(SAP_keys) |-> Strip(Str(RowGet(df, sap_r, cw, <<>>)))],
         SAP_keys |-> SAP_keys,
         components |->
           [name \in {comp(r) : r \in {q \in 1..Len(df.rows) : IsComp(q)}} |->
              [material_code |-> DetailsCode(details(last(name))),
               description |-> details(last(name)),
               usage |-> usage(last(name)),
               colorways |-> [cw \in SeqToSet(colorway_cols) |->
                                Strip(Str(RowGet(df, last(name), cw, <<>>)))],
               cw_order |-> colorway_cols]]]

(***************************************************************************)
(* parsers/care_content.py                                                 *)
(***************************************************************************)
KNOWN_CARE_CODE == <<"3","0","0","0">>

_FABRIC_SECTIONS ==
  <<<<"E","x","c","l","u","s","i","v","e"," ","o","f"," ","T","r","i","m","m","i","n","g">>, <<"F","a","u","x"," ","F","u","r">>, <<"I","n","s","u","l","a","t","i","o","n">>, <<"L","i","n","i","n","g">>, <<"F","i","l","l">>,
    <<"F","a","c","e">>, <<"B","o","d","y">>, <<"T","r","i","m">>, <<"O","u","t","e","r">>, <<"I","n","n","e","r">>, <<"S","h","e","l","l">>>>

\* the least element of a non-empty set of integers
Least(S) == CHOOSE i \in S : \A j \in S : i <= j

\* positions where label occurs in s, compared case-insensitively
LabelAt(s, label) ==
  {i \in 1..(Len(s) - Len(label) + 1) : Lower(Slice(s, i, i + Len(label) - 1)) = Lower(label)}

\* group 1 of re.search(label + r'\s*(cls+)', s, re.IGNORECASE), InCls the test of
\* the character class cls; "" when there is no match
AfterLabel(s, label, InCls(_)) ==
  LET start(i) == i + Len(label) + SpanLen(Drop(s, i + Len(label) - 1), SpaceSet)
      Ok(i) == start(i) <= Len(s) /\ InCls(s[start(i)])
      hits == {i \in LabelAt(s, label) : Ok(i)}
  IN  IF hits = {} THEN <<>>
      ELSE LET b == start(Least(hits))
               r == Drop(s, b - 1)
               n == IF \A k \in 1..Len(r) : InCls(r[k]) THEN Len(r)
                    ELSE Least({k \in 1..Len(r) : ~InCls(r[k])}) - 1
           IN  Take(r, n)

\* group 1 of re.search(r'CONTENT CODE:\s*\w+\s+(.*)', header, re.IGNORECASE), stripped
FullContent(header) ==
  LET label == <<"C","O","N","T","E","N","T"," ","C","O","D","E",":">>
      wstart(i) == i + Len(label) + SpanLen(Drop(header, i + Len(label) - 1), SpaceSet)
      wlen(i) == SpanLen(Drop(header, wstart(i) - 1), WordSet)
      Ok(i) == /\ wlen(i) >= 1
               /\ wstart(i) + wlen(i) <= Len(header)
               /\ header[wstart(i) + wlen(i)] \in SpaceSet
      hits == {i \in LabelAt(header, label) : Ok(i)}
  IN  IF hits = {} THEN <<>>
      ELSE LET i == Least(hits)
               r == LStripSet(Drop(header, wstart(i) + wlen(i) - 1), SpaceSet)
               \* .* stops at a newline
               n == IF "\n" \in SeqToSet(r) THEN IndexOf(r, <<"\n">>) - 1 ELSE Len(r)
           IN  Strip(Take(r, n))

\* the section label of _FABRIC_SECTIONS matched by r'\b(label):' at position i of s, 0 if none
SectionAt(s, i) ==
  LET Is(k) == /\ (i = 1 \/ s[i - 1] \notin WordSet)
               /\ Slice(s, i, i + Len(_FABRIC_SECTIONS[k]) - 1) = _FABRIC_SECTIONS[k]
               /\ i + Len(_FABRIC_SECTIONS[k]) <= Len(s)
               /\ s[i + Len(_FABRIC_SECTIONS[k])] = ":"
  IN  IF \E k \in 1..Len(_FABRIC_SECTIONS) : Is(k)
      THEN CHOOSE k \in 1..Len(_FABRIC_SECTIONS) : Is(k)
      ELSE 0

\* the matches of the section pattern in s from position i on, as re.split finds them:
\* a sequence of <<position, label index>>
RECURSIVE SectionMatches(_, _)
SectionMatches(s, i) ==
  IF i > Len(s) THEN <<>>
  ELSE IF SectionAt(s, i) # 0
       THEN <<<<i, SectionAt(s, i)>>>>
              \o SectionMatches(s, i + Len(_FABRIC_SECTIONS[SectionAt(s, i)]) + 1)
       ELSE SectionMatches(s, i + 1)

\* sections of _parse_content_header: label -> text up to the next label
SectionsOf(full_content) ==
  LET ms == SectionMatches(full_content, 1)
      name(k) == Strip(_FABRIC_SECTIONS[ms[k][2]])
      from(k) == ms[k][1] + Len(_FABRIC_SECTIONS[ms[k][2]]) + 1
      to(k) == IF k = Len(ms) THEN Len(full_content) ELSE ms[k + 1][1] - 1
      text(k) == RStripSet(Strip(Slice(full_content, from(k), to(k))), {","})
      \* a label met again replaces the earlier text
      lastOf(nm) == CHOOSE k \in 1..Len(ms) :
                      name(k) = nm /\ \A m \in (k + 1)..Len(ms) : name(m) # nm
  IN  [nm \in {name(k) : k \in 1..Len(ms)} |-> text(lastOf(nm))]

\* the result dict for a header whose content code, full content and sections are known
ParsedContent(content_code, full_content, sections) ==
  [content_code |-> content_code,
   shell |-> Get(sections, <<"S","h","e","l","l">>, <<>>),
   sections |-> sections,
   full_content |-> full_content]

\* _parse_content_header for a header whose full content is known
ParsedHeader(header, full_content) ==
  LET IsW(c) == c \in WordSet
  IN  ParsedContent(Strip(AfterLabel(header, <<"C","O","N","T","E","N","T"," ","C","O","D","E",":">>, IsW)), full_content,
                    SectionsOf(full_content))

_parse_content_header(header) == ParsedHeader(header, FullContent(header))

_parse_care_header(header) ==
  LET IsNS(c) == c \notin SpaceSet
      g == AfterLabel(header, <<"C","a","r","e"," ","C","o","d","e",":">>, IsNS)
  IN  IF g # <<>> THEN Strip(g) ELSE KNOWN_CARE_CODE

\* re.match(r'^\d{3}$', s)
IsThreeDigits(s) == Len(s) = 3 /\ IsDigitStr(s)

\* a cell or column name holding a CONTENT CODE block
IsContentBlock(cell_str) == Contains(Upper(cell_str), <<"C","O","N","T","E","N","T"," ","C","O","D","E">>) /\ Len(cell_str) > 15

\* current_entry = None: no block found yet (a parsed block always has a content code)
NoEntry == [content_code |-> <<>>, shell |-> <<>>, sections |-> EmptyDict, full_content |-> <<>>]

\* the parse of a cell that holds a CONTENT CODE block, NoEntry for any other cell
BlockOf(cell_str) ==
  IF IsContentBlock(cell_str) THEN _parse_content_header(cell_str) ELSE NoEntry

\* the parses of the cells of a row or of the column names
BlocksOf(cells) == [c \in 1..Len(cells) |-> BlockOf(Strip(Str(cells[c])))]

\* the element of blocks at index i, NoEntry for i = 0
BlockAt(blocks, i) == IF i = 0 THEN NoEntry ELSE blocks[i]

\* the first parse with a content code, NoEntry if none
FirstBlock(blocks) ==
  BlockAt(blocks, FirstTrue([c \in 1..Len(blocks) |-> blocks[c].content_code # <<>>]))

\* found_code of row r of df: the parse of the first cell holding a block with a content
\* code; NoEntry if none
RowContentBlock(df, r) == FirstBlock(BlocksOf(df.rows[r]))

\* the element of cells at index i, stripped; None for i = 0
CellAt(cells, i) == IF i = 0 THEN None ELSE Strip(Str(cells[i]))

\* colorway_num of row r: the first cell that is a three-digit number; None if none
RowColorwayNum(df, r) ==
  CellAt(df.rows[r],
         FirstTrue([c \in 1..Len(df.rows[r]) |-> IsThreeDigits(Strip(Str(df.rows[r][c])))]))

\* current_entry after the scan of the column names: the parse of the first column name
\* that is a block, whether or not it has a content code
HeaderContentBlock(df) ==
  BlockAt(BlocksOf(df.columns),
          FirstTrue([c \in 1..Len(df.columns) |-> IsContentBlock(Strip(Str(df.columns[c])))]))

\* one iteration of a row loop in which the first block found stays current
ContentStepKeepFirst(current_entry, result, found_code, colorway_num) ==
  IF found_code.content_code # <<>>
  THEN [current_entry |-> IF current_entry.content_code = <<>> THEN found_code
                          ELSE current_entry,
        result |-> result]
  ELSE IF current_entry.content_code = <<>>
       THEN [current_entry |-> current_entry, result |-> result]
  ELSE IF colorway_num # None
       THEN [current_entry |-> current_entry,
             result |-> Put(result, colorway_num, current_entry)]
  ELSE [current_entry |-> current_entry, result |-> result]

\* one iteration of the row loop of extract_content_codes: the accumulators after row r,
\* found_code and colorway_num being the values computed for the row
ContentStep(current_entry, result, found_code, colorway_num) ==
  IF found_code.content_code # <<>> THEN [current_entry |-> found_code, result |-> result]
  ELSE IF current_entry.content_code = <<>>
       THEN [current_entry |-> current_entry, result |-> result]
  ELSE IF colorway_num # None
       THEN [current_entry |-> current_entry,
             result |-> Put(result, colorway_num, current_entry)]
  ELSE [current_entry |-> current_entry, result |-> result]

\* the row loop of extract_content_codes from row r on, acc holding its two accumulators
RECURSIVE ContentScan(_, _, _)
ContentScan(df, r, acc) ==
  IF r > Len(df.rows) THEN acc.result
  ELSE ContentScan(df, r + 1,
                   ContentStep(acc.current_entry, acc.result,
                               RowContentBlock(df, r), RowColorwayNum(df, r)))

extract_content_codes(content_report_df) ==
  IF IsEmptyDF(content_report_df) THEN EmptyDict
  ELSE ContentScan(content_report_df, 1,
                   [current_entry |-> HeaderContentBlock(content_report_df),
                    result |-> EmptyDict])

FallbackInstructions ==
  <<"H","a","n","d"," ","W","a","s","h"," ","C","o","l","d",","," ","D","o"," ","N","o","t"," ","B","l","e","a","c","h",","," ","D","r","y"," ","F","l","a","t",","," ">>
    \o <<"D","o"," ","N","o","t"," ","W","r","i","n","g"," ","o","r"," ","T","w","i","s","t",","," ","R","e","s","h","a","p","e",","," ","D","o"," ","N","o","t"," ","I","r","o","n",","," ","D","r","y","c","l","e","a","n","a","b","l","e">>

extract_care_codes(care_report_df) ==
  IF IsEmptyDF(care_report_df) THEN EmptyDict
  ELSE
    LET df == care_report_df
        IsCare(c) == Contains(Str(df.columns[c]), <<"C","a","r","e"," ","C","o","d","e">>)
        hasCare == \E c \in 1..Len(df.columns) : IsCare(c)
        c0 == CHOOSE c \in 1..Len(df.columns) : IsCare(c) /\ \A d \in 1..(c - 1) : ~IsCare(d)
        care_code == IF hasCare THEN _parse_care_header(Str(df.columns[c0])) ELSE KNOWN_CARE_CODE
        IsEnglish(r) == Lower(Strip(Str(df.rows[r][c0]))) = <<"e","n","g","l","i","s","h">>
        english ==
          IF hasCare /\ Len(df.columns) > 1 /\ \E r \in 1..Len(df.rows) : IsEnglish(r)
          THEN Strip(Str(df.rows[Least({r \in 1..Len(df.rows) : IsEnglish(r)})][2]))
          ELSE <<>>
        entry == [care_code |-> care_code,
                  english_instructions |-> IF english = <<>> THEN FallbackInstructions ELSE english]
        \* cols_lower.get(a) or cols_lower.get(b): the last column whose lower-cased name is a, else b
        ByLower(nm) == {c \in 1..Len(df.columns) : Lower(Str(df.columns[c])) = nm}
        Pick(a, b) == IF ByLower(a) # {} THEN CHOOSE c \in ByLower(a) : \A d \in ByLower(a) : d <= c
                      ELSE IF ByLower(b) # {} THEN CHOOSE c \in ByLower(b) : \A d \in ByLower(b) : d <= c
                      ELSE 0
        num_col == Pick(<<"c","o","l","o","r"," ","w","a","y"," ","n","u","m","b","e","r">>, <<"c","o","l","o","r","w","a","y"," ","n","u","m","b","e","r">>)
        name_col == Pick(<<"c","o","l","o","r"," ","w","a","y"," ","n","a","m","e">>, <<"c","o","l","o","r","w","a","y"," ","n","a","m","e">>)
        cellOr(r, c) == IF c = 0 THEN <<>> ELSE df.rows[r][c]
        key(r) == Strip(Str(IF cellOr(r, num_col) # <<>> THEN cellOr(r, num_col)
                            ELSE cellOr(r, name_col)))
    IN  IF num_col = 0 /\ name_col = 0 THEN EmptyDict
        ELSE [k \in {key(r) : r \in {q \in 1..Len(df.rows) : IsThreeDigits(key(q))}} |-> entry]

(***************************************************************************)
(* parsers/pdf_parser.py: metadata and supplier lookup                     *)
(***************************************************************************)
\* str.splitlines(), blank lines left out
Lines(text) == Tokens(text, {"\n"})

\* the value of the last line of the text that starts with label and has a ':'; None if no such line
MetaValue(first_page_text, label) ==
  LET ls == Lines(first_page_text)
      line(i) == Strip(ls[i])
      Is(i) == StartsWith(Lower(line(i)), Lower(label)) /\ Contains(line(i), <<":">>)
  IN  IF \E i \in 1..Len(ls) : Is(i)
      THEN LET i == CHOOSE k \in 1..Len(ls) : Is(k) /\ \A m \in (k + 1)..Len(ls) : ~Is(m)
           IN  Strip(Drop(line(i), IndexOf(line(i), <<":">>)))
      ELSE None

\* meta.setdefault(key, default)
SetDefault(v, default) == IF v = None THEN default ELSE v

_extract_metadata(first_page_text) ==
  [style |-> SetDefault(MetaValue(first_page_text, <<"S","t","y","l","e">>), <<"C","L","2","8","8","0">>),
   season |-> SetDefault(MetaValue(first_page_text, <<"S","e","a","s","o","n">>), <<"F","2","5">>),
   design |-> SetDefault(MetaValue(first_page_text, <<"D","e","s","i","g","n">>), <<"F","4","W","A","2","0","9","2","6","4">>),
   production_lo |-> SetDefault(MetaValue(first_page_text, <<"P","r","o","d","u","c","t","i","o","n"," ","L","O">>), <<"V","i","e","t","n","a","m">>)]

\* one re.sub(r'([a-z]) ([a-z])', ...) of _build_supplier_lookup._clean_supplier, from position i on
RECURSIVE CleanSupplierPass(_, _)
CleanSupplierPass(s, i) ==
  IF i > Len(s) THEN <<>>
  ELSE IF i + 2 <= Len(s) /\ s[i] \in LowerSet /\ s[i + 1] = " " /\ s[i + 2] \in LowerSet
       THEN <<s[i], s[i + 2]>> \o CleanSupplierPass(s, i + 3)
       ELSE <<s[i]>> \o CleanSupplierPass(s, i + 1)

RECURSIVE _clean_supplier(_)
_clean_supplier(s) ==
  LET t == CleanSupplierPass(s, 1) IN IF t = s THEN s ELSE _clean_supplier(t)

\* the rows loop of _build_supplier_lookup from row r on
RECURSIVE SupplierScan(_, _, _, _, _)
SupplierScan(df, material_col, supplier_col, r, lookup) ==
  IF r > Len(df.rows) THEN lookup
  ELSE
    LET mat == Strip(Str(df.rows[r][material_col]))
        supp == _clean_supplier(Strip(Str(df.rows[r][supplier_col])))
        IsDesc(c) == Contains(df.columns[c], <<"d","e","s","c","r","i","p","t","i","o","n">>)
        HasCode(c) == IsDesc(c) /\ FirstCode(Strip(Str(df.rows[r][c]))) # <<>>
        mat_code ==
          IF FirstCode(mat) # <<>> THEN FirstCode(mat)
          ELSE IF \E c \in 1..Len(df.columns) : HasCode(c)
               THEN FirstCode(Strip(Str(df.rows[r][Least({c \in 1..Len(df.columns) : HasCode(c)})])))
               ELSE <<>>
    IN  SupplierScan(df, material_col, supplier_col, r + 1,
                     IF mat_code # <<>> /\ UsableSupplier(supp)
                     THEN Put(lookup, mat_code, supp) ELSE lookup)

_build_supplier_lookup(costing_detail_df) ==
  IF IsEmptyDF(costing_detail_df) THEN EmptyDict
  ELSE
    LET df == DF([i \in 1..Len(costing_detail_df.columns) |->
                    Strip(Lower(Str(costing_detail_df.columns[i])))],
                 costing_detail_df.rows)
        Exact(nm) == {c \in 1..Len(df.columns) : df.columns[c] = nm}
        Has(nm) == {c \in 1..Len(df.columns) : Contains(df.columns[c], nm)}
        material_col == IF Exact(<<"m","a","t","e","r","i","a","l">>) # {} THEN Least(Exact(<<"m","a","t","e","r","i","a","l">>))
                        ELSE IF Has(<<"m","a","t","e","r","i","a","l">>) # {} THEN Least(Has(<<"m","a","t","e","r","i","a","l">>))
                        ELSE 0
        supplier_col == IF Exact(<<"s","u","p","p","l","i","e","r">>) # {} THEN Least(Exact(<<"s","u","p","p","l","i","e","r">>))
                        ELSE IF Has(<<"s","u","p","p","l","i","e","r">>) \cup Has(<<"v","e","n","d","o","r">>) # {}
                             THEN Least(Has(<<"s","u","p","p","l","i","e","r">>) \cup Has(<<"v","e","n","d","o","r">>))
                        ELSE 0
    IN  IF material_col # 0 /\ supplier_col # 0
        THEN SupplierScan(df, material_col, supplier_col, 1, EmptyDict)
        ELSE EmptyDict

(***************************************************************************)
(* validators/filler.py: validate_and_fill, one comparison row             *)
(***************************************************************************)
\* the glyphs of the status texts, each one code point
CrossMark == "U+274C"

CheckMark == "U+2705"

WarningSign == "U+26A0"

VariationSelector16 == "U+FE0F"

\* the status with the two styles in the other order
StyleMismatchStatusSwapped(buyer_style, bom_style) ==
  <<CrossMark>> \o <<" ","E","r","r","o","r",":"," ","S","t","y","l","e"," ","m","i","s","m","a","t","c","h"," ","(">> \o bom_style \o <<" ","v","s"," ">> \o buyer_style \o <<")">>

StyleMismatchStatus(buyer_style, bom_style) ==
  <<CrossMark>> \o <<" ","E","r","r","o","r",":"," ","S","t","y","l","e"," ","m","i","s","m","a","t","c","h"," ","(">> \o buyer_style \o <<" ","v","s"," ">> \o bom_style \o <<")">>

UnknownColorwayStatus(color_raw) ==
  <<CrossMark>> \o <<" ","E","r","r","o","r",":"," ","U","n","k","n","o","w","n"," ","c","o","l","o","r","w","a","y"," ","'">> \o color_raw \o <<"'">>

ValidatedStatus == <<CheckMark>> \o <<" ","V","a","l","i","d","a","t","e","d">>

PartialStatus == <<WarningSign, VariationSelector16>> \o <<" ","P","a","r","t","i","a","l">>

NoDataStatus == <<CrossMark>> \o <<" ","E","r","r","o","r",":"," ","N","o"," ","B","O","M"," ","d","a","t","a"," ","m","a","t","c","h","e","d">>

\* a or b of two str
Or(a, b) == IF a # <<>> /\ a # None THEN a ELSE b

\* buyer_style of a row
BuyerStyle(row) == Upper(Strip(Str(row.style)))

\* bom_style of the document
BomStyle(bom_data) == Upper(Strip(Str(bom_data.metadata.style)))

\* the condition of the style match check
IsStyleMismatch(buyer_style, bom_style) ==
  /\ buyer_style # <<>> /\ bom_style # <<>>
  /\ buyer_style # bom_style
  /\ ~Contains(bom_style, buyer_style)
  /\ ~Contains(buyer_style, bom_style)

\* color_raw of a row
ColorRaw(row) == Strip(Str(row.color))

\* validate_and_fill.get_code
get_code(components, comp_key) ==
  _get_material_code_for_comp(Get(components, comp_key, EmptyComp))

\* validate_and_fill.get_cw_val
get_cw_val(components, comp_key, matched_cw) ==
  _nv(Get(Get(components, comp_key, EmptyComp).colorways, matched_cw, <<>>))

\* validate_and_fill.get_care and get_content: e.get(key, "") through _nv
get_entry(codes, key, matched_cw, cw_num) ==
  LET e == IF matched_cw \in DOMAIN codes THEN codes[matched_cw]
           ELSE IF cw_num \in DOMAIN codes THEN codes[cw_num]
           ELSE EmptyDict
  IN  _nv(Get(e, key, <<>>))

\* the status with the bound of Partial off by one
StatusOfInclusive(fields) ==
  LET not_found == Cardinality({c \in DerivedColumns : Str(fields[c]) = NA})
  IN  IF not_found = 0 THEN ValidatedStatus
      ELSE IF not_found <= Len(NEW_COLUMNS) - 1 THEN PartialStatus
      ELSE NoDataStatus

\* the status of a filled row
StatusOf(fields) ==
  LET not_found == Cardinality({c \in DerivedColumns : Str(fields[c]) = NA})
  IN  IF not_found = 0 THEN ValidatedStatus
      ELSE IF not_found < Len(NEW_COLUMNS) - 1 THEN PartialStatus
      ELSE NoDataStatus

\* lines 140-154, called in the order of lines 266-307: the suppliers resolve_supplier
\* returns for the codes, each call reading the supplier_lookup the call before it left
RECURSIVE ResolveSuppliers(_, _, _, _)
ResolveSuppliers(supplier_lookup, costing_detail, mat_codes, suppliers) ==
  IF Len(suppliers) = Len(mat_codes)
  THEN [suppliers |-> suppliers, supplier_lookup |-> supplier_lookup]
  ELSE ResolveSuppliers(
         resolve_supplier_cache(supplier_lookup, costing_detail,
                                mat_codes[Len(suppliers) + 1]),
         costing_detail, mat_codes,
         Append(suppliers, resolve_supplier(supplier_lookup, costing_detail,
                                            mat_codes[Len(suppliers) + 1])))

\* lines 250-305: the locals of the row loop's body that do not depend on the supplier
RowLocals(bom_data, components, care_codes, content_codes, matched_cw, cw_num, main, care) ==
  [main_id |-> main[2],
   main_code |-> IF main[1] # <<>> THEN get_code(components, main[1]) ELSE NA,
   main_color |-> get_color_from_spec(bom_data, main[1], matched_cw),
   care_id |-> care[2],
   care_code |-> IF care[1] # <<>> THEN get_code(components, care[1]) ELSE NA,
   care_color |-> get_color_from_spec(bom_data, care[1], matched_cw),
   logo_code |-> get_code(components, <<"L","a","b","e","l"," ","L","o","g","o"," ","1">>),
   logo_color |-> get_color_from_spec(bom_data, <<"L","a","b","e","l"," ","L","o","g","o"," ","1">>, matched_cw),
   content_code |-> get_entry(content_codes, "content_code", matched_cw, cw_num),
   shell |-> get_entry(content_codes, "shell", matched_cw, cw_num),
   care_code_value |-> get_entry(care_codes, "care_code", matched_cw, cw_num),
   ht_code |-> get_code(components, <<"H","a","n","g","t","a","g"," ","P","a","c","k","a","g","e"," ","P","a","r","t">>),
   ht_cw |-> get_cw_val(components, <<"H","a","n","g","t","a","g"," ","P","a","c","k","a","g","e"," ","P","a","r","t">>, matched_cw),
   rfid_desc |-> Str(Get(components, <<"H","a","n","g","t","a","g"," ","P","a","c","k","a","g","e"," ","P","a","r","t">>, EmptyComp).description),
   upc_code |-> get_code(components, <<"P","a","c","k","a","g","i","n","g"," ","3">>),
   upc_cw |-> get_cw_val(components, <<"P","a","c","k","a","g","i","n","g"," ","3">>, matched_cw)]

\* lines 294-297: rfid_code
RfidCode(v) == Or(extract_material_code(v.rfid_desc), extract_material_code(v.ht_cw))

\* lines 266, 277, 288, 299, 301, 307: the arguments of the six resolve_supplier calls
SupplierCodes(v, rfid_code) ==
  <<v.main_code, v.care_code, v.ht_code, Or(rfid_code, v.ht_code),
    Or(rfid_code, v.ht_code), v.upc_code>>

\* lines 264-307: the nineteen derived cells written for the row
DerivedCells(v, rfid_code, suppliers) ==
  [c \in DerivedColumns |->
     CASE c = "Main Label" -> Or(v.main_id, Or(v.main_code, NA))
       [] c = "Main Label Color" -> Or(v.main_color, NA)
       [] c = "Main Label Supplier" -> suppliers[1]
       [] c = "Additional Main Label" -> Or(v.logo_code, NA)
       [] c = "Additional Main Label Color" -> Or(v.logo_color, NA)
       [] c = "Care Label" -> Or(v.care_id, Or(v.care_code, NA))
       [] c = "Care Label Color" -> Or(v.care_color, NA)
       [] c = "Care Label Supplier" -> suppliers[2]
       [] c = "Content Code" -> v.content_code
       [] c = "TP FC" -> v.shell
       [] c = "Care Code" -> v.care_code_value
       [] c = "Hangtag" -> Or(v.ht_code, Or(extract_id_only(v.ht_cw), NA))
       [] c = "Hangtag Supplier" -> suppliers[3]
       [] c = "Hangtag (RFID)" -> Or(rfid_code, Or(extract_id_only(v.rfid_desc), NA))
       [] c = "Hangtag (RFID) Supplier" -> suppliers[4]
       [] c = "RFID Sticker" -> Or(rfid_code, Or(extract_id_only(v.rfid_desc), NA))
       [] c = "RFID Sticker Supplier" -> suppliers[5]
       [] c = "UPC Sticker (Polybag)" -> Or(v.upc_code, Or(extract_id_only(v.upc_cw), NA))
       [] c = "UPC Sticker Supplier" -> suppliers[6]]

\* lines 309-316: the derived cells together with the status computed from them
WithStatus(derived) ==
  [c \in DerivedColumns \cup {"Validation Status"} |->
     IF c = "Validation Status" THEN StatusOf(derived) ELSE derived[c]]

\* lines 264-316 for given locals and resolved suppliers
RowCells(v, rfid_code, resolved) ==
  [fields |-> WithStatus(DerivedCells(v, rfid_code, resolved.suppliers)),
   supplier_lookup |-> resolved.supplier_lookup]

\* lines 264-316 for given locals
RowOf(v, rfid_code, supplier_lookup, costing_detail) ==
  RowCells(v, rfid_code,
           ResolveSuppliers(supplier_lookup, costing_detail,
                            SupplierCodes(v, rfid_code), <<>>))

\* lines 264-316 for given locals, rfid_code computed
RowOfLocals(v, supplier_lookup, costing_detail) ==
  RowOf(v, RfidCode(v), supplier_lookup, costing_detail)

\* the body of the row loop after colorway matching: the twenty cells written for the
\* row and supplier_lookup after the six resolve_supplier calls
FillRow(bom_data, components, care_codes, content_codes, supplier_lookup, matched_cw) ==
  RowOfLocals(RowLocals(bom_data, components, care_codes, content_codes, matched_cw,
                        CwNum(matched_cw),
                        split_comp(bom_data.selected_main_label_comp),
                        split_comp(bom_data.selected_care_label_comp)),
              supplier_lookup, bom_data.costing_detail)

\* the cells of a row for which only the status is written
StatusOnly(status) ==
  [c \in DerivedColumns \cup {"Validation Status"} |->
     IF c = "Validation Status" THEN status ELSE <<>>]

(***************************************************************************)
(* parsers/pdf_parser.py: tables, sections, parse_bom_pdf                  *)
(***************************************************************************)
DigitChars == <<"0","1","2","3","4","5","6","7","8","9">>

\* str(n) of a natural number
RECURSIVE IntToStr(_)
IntToStr(n) ==
  IF n < 10 THEN <<DigitChars[n + 1]>>
  ELSE IntToStr(n \div 10) \o <<DigitChars[(n % 10) + 1]>>

\* str(c).replace("\n", " ").strip() if c is not None else ""
CleanCell(c) ==
  IF c = None THEN <<>>
  ELSE Strip([i \in 1..Len(Str(c)) |-> IF Str(c)[i] = "\n" THEN " " ELSE Str(c)[i]])

CleanRow(row) == [i \in 1..Len(row) |-> CleanCell(row[i])]

_clean_table(rows) == [i \in 1..Len(rows) |-> CleanRow(rows[i])]

\* sum(1 for c in row if c)
NonEmptyCount(row) == Cardinality({i \in 1..Len(row) : row[i] # <<>>})

\* the unique header names of _rows_to_df and of the costing detail build: a name met
\* before gets the suffix _<number of earlier occurrences>
UniqueHeader(header_row) ==
  LET name(i) == IF header_row[i] # <<>> THEN header_row[i] ELSE <<"c","o","l","_">> \o IntToStr(i - 1)
      earlier(i) == Cardinality({j \in 1..(i - 1) : name(j) = name(i)})
  IN  [i \in 1..Len(header_row) |->
         IF earlier(i) > 0 THEN name(i) \o <<"_">> \o IntToStr(earlier(i)) ELSE name(i)]

\* a row left at its own width
FitRowRagged(row, num_cols) == row

\* a row padded with "" or cut to num_cols cells
FitRow(row, num_cols) ==
  [i \in 1..num_cols |-> IF i <= Len(row) THEN row[i] ELSE <<>>]

\* df[~(df.eq("").all(axis=1))]
DropEmptyRows(rows) ==
  LET NotAllEmpty(row) == \E i \in 1..Len(row) : row[i] # <<>>
  IN  SelectSeq(rows, NotAllEmpty)

\* the first 5 rows are searched for the header
HeaderSearchRows == 5

_rows_to_df(raw_rows) ==
  LET rows == _clean_table(raw_rows)
      first == 1..(IF Len(rows) < HeaderSearchRows THEN Len(rows) ELSE HeaderSearchRows)
      \* the first row with the greatest count of non-empty cells (row 1 if all are empty)
      best_header_idx ==
        CHOOSE i \in first :
          /\ \A j \in first : NonEmptyCount(rows[j]) <= NonEmptyCount(rows[i])
          /\ \A j \in first : j < i => NonEmptyCount(rows[j]) < NonEmptyCount(rows[i])
      header_row == rows[best_header_idx]
      data == [k \in 1..(Len(rows) - best_header_idx) |->
                 FitRow(rows[best_header_idx + k], Len(header_row))]
  IN  IF rows = <<>> THEN EmptyDF
      ELSE DF(UniqueHeader(header_row), DropEmptyRows(data))

_detect_section(page_text) ==
  LET txt == Lower(page_text)
  IN  IF Contains(txt, <<"c","o","l","o","r"," ","b","o","m">>) THEN "color_bom"
      ELSE IF Contains(txt, <<"c","o","l","o","r","l","e","s","s"," ","b","o","m">>) THEN "colorless_bom"
      ELSE IF Contains(txt, <<"c","o","l","o","r"," ","s","p","e","c","i","f","i","c","a","t","i","o","n">>) THEN "color_specification"
      ELSE IF Contains(txt, <<"c","o","s","t","i","n","g">>)
           THEN IF Contains(txt, <<"s","u","m","m","a","r","y">>) /\ ~Contains(txt, <<"m","a","t","e","r","i","a","l">>)
                THEN "costing_summary" ELSE "costing_detail"
      ELSE IF Contains(txt, <<"c","a","r","e"," ","r","e","p","o","r","t">>) THEN "care_report"
      ELSE IF Contains(txt, <<"c","o","n","t","e","n","t"," ","r","e","p","o","r","t">>) THEN "content_report"
      ELSE IF Contains(txt, <<"m","e","a","s","u","r","e","m","e","n","t">>) THEN "measurements"
      ELSE IF Contains(txt, <<"s","a","l","e","s"," ","s","a","m","p","l","e">>) THEN "sales_sample"
      ELSE IF Contains(txt, <<"h","a","n","g","t","a","g">>) THEN "hangtag_report"
      ELSE "unknown"

\* row_strs of a raw row: the cleaned, lower-cased cells that are not None
RowStrs(row) == {Lower(CleanCell(row[i])) : i \in {j \in 1..Len(row) : row[j] # None}}

_is_costing_detail_table(table) ==
  \E r \in 1..(IF Len(table) < 3 THEN Len(table) ELSE 3) :
     \/ <<"m","a","t","e","r","i","a","l">> \in RowStrs(table[r]) /\ <<"s","u","p","p","l","i","e","r">> \in RowStrs(table[r])
     \/ <<"c","o","m","p","o","n","e","n","t">> \in RowStrs(table[r]) /\ <<"m","a","t","e","r","i","a","l">> \in RowStrs(table[r])

\* header_idx of the costing detail branch: the first of the first 3 rows with
\* "material" and "supplier", else the first row
CostingHeaderIdx(tbl) ==
  LET Is(r) == <<"m","a","t","e","r","i","a","l">> \in RowStrs(tbl[r]) /\ <<"s","u","p","p","l","i","e","r">> \in RowStrs(tbl[r])
      first == 1..(IF Len(tbl) < 3 THEN Len(tbl) ELSE 3)
  IN  IF \E r \in first : Is(r) THEN Least({r \in first : Is(r)}) ELSE 1

\* costing_detail_header is None
NoHeader == <<None>>

\* the rows a continuation table adds (lines 207-224)
ContinuationRows(tbl, num_cols) ==
  LET Keep(row) ==
        /\ NonEmptyCount(row) >= 3
        /\ ~Contains(Lower(IF Len(row) > 0 THEN row[1] ELSE <<>>), <<"c","o","s","t","i","n","g"," ","b","o","m">>)
        /\ ~Contains(Lower(IF Len(row) > 0 THEN row[1] ELSE <<>>), <<"l","i","n","e"," ","s","l","o","t">>)
      kept == SelectSeq(_clean_table(tbl), Keep)
  IN  [i \in 1..Len(kept) |-> FitRow(kept[i], num_cols)]

\* the rows a table with a header adds (lines 191-200)
HeaderTableRows(tbl, num_cols) ==
  [k \in 1..(Len(tbl) - CostingHeaderIdx(tbl)) |->
     FitRow(CleanRow(tbl[CostingHeaderIdx(tbl) + k]), num_cols)]

\* the state of the page loop: costing header, costing rows, tables_by_section
\* after table tbl of a page of the given section (lines 170-227)
AfterTable(st, section, tbl) ==
  IF tbl = <<>> THEN st
  ELSE IF section = "costing_detail" /\ _is_costing_detail_table(tbl)
  THEN LET h == IF st.header = NoHeader THEN CleanRow(tbl[CostingHeaderIdx(tbl)])
                ELSE st.header
       IN  [st EXCEPT !.header = h,
                      !.rows = st.rows \o HeaderTableRows(tbl, Len(h))]
  ELSE IF section = "costing_detail"
  THEN IF st.header # NoHeader
       THEN [st EXCEPT !.rows = st.rows \o ContinuationRows(tbl, Len(st.header))]
       ELSE st
  ELSE [st EXCEPT !.tables = Put(st.tables, section, Get(st.tables, section, <<>>) \o <<tbl>>)]

RECURSIVE AfterTables(_, _, _, _)
AfterTables(st, section, page_tables, k) ==
  IF k > Len(page_tables) THEN st
  ELSE AfterTables(AfterTable(st, section, page_tables[k]), section, page_tables, k + 1)

\* page_tables of a page (lines 160-168): the extracted tables, [] when extraction
\* raises, the text lines as a one-column table when there is no table
PageTables(page) ==
  LET text == IF page.text = None THEN <<>> ELSE page.text
      extracted == IF page.raises THEN <<>> ELSE page.tables
      ls == LET NotBlank(l) == Strip(l) # <<>> IN SelectSeq(Tokens(text, {"\n"}), NotBlank)
  IN  IF extracted # <<>> THEN extracted
      ELSE IF ls # <<>> THEN <<[i \in 1..Len(ls) |-> <<Strip(ls[i])>>]>>
      ELSE <<>>

\* all rows of the tables of one section, each fitted to the width of the first (lines 249-264)
SectionRows(tables) ==
  LET Flat[k \in 0..Len(tables)] ==
        IF k = 0 THEN <<>> ELSE Flat[k - 1] \o _clean_table(tables[k])
      all == Flat[Len(tables)]
  IN  [i \in 1..Len(all) |-> FitRow(all[i], Len(all[1]))]

\* result["costing_detail"] (lines 230-246)
CostingDetailDF(header, rows) ==
  IF header # NoHeader /\ header # <<>> /\ rows # <<>>
  THEN DF(UniqueHeader(header), DropEmptyRows(rows))
  ELSE EmptyDF

KnownSections ==
  <<"color_bom", "colorless_bom", "color_specification",
    "costing_summary", "costing_detail", "care_report",
    "content_report", "measurements", "sales_sample", "hangtag_report">>

\* the result without the default tables
WithoutDefaults(res, keys) == res

\* result.setdefault(key, pd.DataFrame()) for every key of the list (lines 269-274)
WithDefaults(res, keys) ==
  [k \in DOMAIN res \cup SeqToSet(keys) |-> IF k \in DOMAIN res THEN res[k] ELSE EmptyDF]

(***************************************************************************)
(* Inputs: parsed documents and comparison rows                            *)
(***************************************************************************)
\* a complete document: every derived field of colorway 010 resolves
DocFull ==
  [first_text |-> <<"C","o","l","u","m","b","i","a"," ","B","O","M">> \o <<"\n">> \o <<"S","t","y","l","e",":"," ","C","L","2","8","8","0">> \o <<"\n">> \o <<"S","e","a","s","o","n",":"," ","F","2","5">>,
   color_bom |->
     DF(<<<<"C","o","m","p","o","n","e","n","t">>, <<"D","e","t","a","i","l","s">>, <<"0","1","0","-","B","l","a","c","k">>, <<"2","2","4","-","C","a","m","e","l"," ","B","r","o","w","n">>>>,
        <<<<<<"S","A","P"," ","M","a","t","e","r","i","a","l"," ","C","o","d","e">>, <<>>, <<"2","0","9","2","6","4","1","0","1","0">>, <<"2","0","9","2","6","4","1","2","2","4">>>>,
          <<<<"L","a","b","e","l"," ","1">>, <<"(","0","0","3","2","8","7",")"," ","W","o","v","e","n">>, <<"W","h","i","t","e">>, <<"S","t","o","c","k">>>>,
          <<<<"L","a","b","e","l"," ","L","o","g","o"," ","1">>, <<"0","7","5","6","6","0"," ","L","o","g","o">>, <<"B","l","a","c","k">>, <<"T","a","n">>>>,
          <<<<"H","a","n","g","t","a","g"," ","P","a","c","k","a","g","e"," ","P","a","r","t">>, <<"T","a","g">>, <<"0","9","7","0","2","2"," ","R","F","I","D">>, <<"(","-",")">>>>,
          <<<<"P","a","c","k","a","g","i","n","g"," ","3">>, <<"U","P","C"," ","1","0","4","4","5","5">>, <<"x">>, <<"x">>>>>>),
   color_specification |->
     DF(<<<<"C","o","m","p","o","n","e","n","t">>, <<"2","2","4","-","C","a","m","e","l"," ","B","r","o","w","n">>>>,
        <<<<<<"L","a","b","e","l"," ","1">>, <<"B","e","i","g","e">>>>>>),
   care_report |->
     DF(<<<<"C","a","r","e"," ","C","o","d","e",":"," ","3","0","0","0">>, <<"I","n","s","t","r","u","c","t","i","o","n","s">>, <<"C","o","l","o","r"," ","W","a","y"," ","N","u","m","b","e","r">>>>,
        <<<<<<"E","n","g","l","i","s","h">>, <<"H","a","n","d"," ","W","a","s","h"," ","C","o","l","d">>, <<"0","1","0">>>>,
          <<<<"F","r","e","n","c","h">>, <<"L","a","v","e","r">>, <<"2","2","4">>>>>>),
   content_report |->
     DF(<<<<"C","O","N","T","E","N","T"," ","C","O","D","E",":"," ","S","R","H"," ","S","h","e","l","l",":"," ","5","5","%"," ","P","o","l","y",","," ","L","i","n","i","n","g",":"," ","N","y","l","o","n">>, <<"C","o","l","o","r"," ","W","a","y"," ","N","u","m","b","e","r">>>>,
        <<<<<<>>, <<"0","1","0">>>>,
          <<<<"C","O","N","T","E","N","T"," ","C","O","D","E",":"," ","A","B","C"," ","L","i","n","i","n","g",":"," ","S","i","l","k">>, <<>>>>,
          <<<<>>, <<"2","2","4">>>>>>),
   costing_detail |->
     DF(<<<<"C","o","m","p","o","n","e","n","t">>, <<"M","a","t","e","r","i","a","l">>, <<"S","u","p","p","l","i","e","r">>>>,
        <<<<<<"L","a","b","e","l"," ","1">>, <<"0","0","3","2","8","7">>, <<"Y"," ","K"," ","K">>>>,
          <<<<"L","a","b","e","l"," ","L","o","g","o"," ","1">>, <<"0","7","5","6","6","0">>, <<"A","c","m","e"," ","t","r","a","d","i","n","g">>>>,
          <<<<"H","a","n","g","t","a","g">>, <<"R","F","-","0","9","7","0","2","2","A">>, <<"T"," ","A"," ","G"," ","C","o">>>>,
          <<<<"P","a","c","k","a","g","i","n","g"," ","3">>, <<"1","0","4","4","5","5">>, <<"P","a","c","k"," ","C","o">>>>>>)]

\* a document whose first page has no Style line and whose Color BOM has no label component
DocPartial ==
  [first_text |-> <<"C","o","l","u","m","b","i","a"," ","B","O","M">> \o <<"\n">> \o <<"S","e","a","s","o","n",":"," ","S","2","6">>,
   color_bom |->
     DF(<<<<"C","o","m","p","o","n","e","n","t">>, <<"0","1","0","-","B","l","a","c","k">>, <<"2","2","4","-","C","a","m","e","l"," ","B","r","o","w","n">>>>,
        <<<<<<"S","A","P"," ","M","a","t","e","r","i","a","l"," ","C","o","d","e">>, <<"2","0","9","2","6","4","1","0","1","0">>, <<"2","0","9","2","6","4","1","2","2","4">>>>,
          <<<<"H","a","n","g","t","a","g"," ","P","a","c","k","a","g","e"," ","P","a","r","t">>, <<"T","a","g"," ","5","5">>, <<"0","9","7","0","2","2"," ","R","F","I","D">>>>,
          <<<<"P","a","c","k","a","g","i","n","g"," ","3">>, <<"1","0","4","4","5","5"," ","U","P","C">>, <<>>>>>>),
   color_specification |->
     DF(<<<<"C","o","m","p","o","n","e","n","t">>, <<"0","1","0","-","B","l","a","c","k">>>>,
        <<<<<<"L","a","b","e","l"," ","1">>, <<"R","e","d">>>>>>),
   care_report |-> EmptyDF,
   content_report |-> EmptyDF,
   costing_detail |->
     DF(<<<<"I","t","e","m">>, <<"V","e","n","d","o","r">>>>,
        <<<<<<"1","0","4","4","5","5">>, <<"P","a","c","k"," ","C","o">>>>,
          <<<<"x","0","9","7","0","2","2">>, <<"n","a","n">>>>,
          <<<<"R","F"," ","0","9","7","0","2","2">>, <<"A"," ","B"," ","T","a","g","s">>>>>>)]

\* a document with an empty Style value whose Color BOM has only the SAP row
DocBare ==
  [first_text |-> <<"S","t","y","l","e",":">> \o <<"\n">> \o <<"D","e","s","i","g","n",":"," ","X","1">>,
   color_bom |->
     DF(<<<<"C","o","m","p","o","n","e","n","t">>, <<"0","1","0","-","B","l","a","c","k">>>>,
        <<<<<<"S","A","P"," ","M","a","t","e","r","i","a","l"," ","C","o","d","e">>, <<"2","0","9","2","6","4","1","0","1","0">>>>>>),
   color_specification |-> EmptyDF,
   care_report |-> EmptyDF,
   content_report |-> EmptyDF,
   costing_detail |-> EmptyDF]

\* a document whose Color BOM has no SAP Material Code row
DocNoSap ==
  [first_text |-> <<"S","t","y","l","e"," ","N","u","m","b","e","r",":"," ","C","L","2","8">>,
   color_bom |->
     DF(<<<<"P","a","r","t">>, <<"0","1","0","-","B","l","a","c","k">>>>,
        <<<<<<"L","a","b","e","l"," ","1">>, <<"W","h","i","t","e">>>>>>),
   color_specification |-> EmptyDF,
   care_report |-> EmptyDF,
   content_report |-> EmptyDF,
   costing_detail |-> EmptyDF]

Docs == {DocFull, DocPartial, DocBare, DocNoSap}

\* the label selections of the caller: <<main label, care label>>
Selections ==
  {<<<<"L","a","b","e","l"," ","1"," ","-"," ","0","0","3","2","8","7">>, <<"L","a","b","e","l"," ","1"," ","-"," ","0","0","3","2","8","7">>>>,
   <<<<"L","a","b","e","l"," ","1">>, None>>,
   <<<<"L","a","b","e","l"," ","9"," ","-"," ","7","7","7">>, <<>>>>}

\* the comparison rows: Buyer Style Number and Color/Option; NaN is an empty spreadsheet cell
RowChoices ==
  {[style |-> <<"C","L","2","8","8","0">>, color |-> <<"0","1","0">>],
   [style |-> <<" ","c","l","2","8">>, color |-> <<"C","O","L","-","2","2","4"," ","C","A","M","E","L">>],
   [style |-> <<"X","X","9","9","9","9">>, color |-> <<"0","1","0">>],
   [style |-> NaN, color |-> <<"C","a","m","e","l">>],
   [style |-> <<>>, color |-> <<"N","/","A">>],
   [style |-> <<"C","L","2","8","8","0">>, color |-> <<"9","9","9">>]}

\* the longest comparison file
MaxRows == 2

\* the lists of at most n rows
RowLists(n) == UNION {[1..k -> RowChoices] : k \in 1..n}

\* bom_data as parse_bom_pdf returns it and the caller completes it with the selections
BomData(d, sel) ==
  [metadata |-> _extract_metadata(d.first_text),
   color_bom |-> d.color_bom,
   color_specification |-> d.color_specification,
   care_report |-> d.care_report,
   content_report |-> d.content_report,
   costing_detail |-> d.costing_detail,
   selected_main_label_comp |-> sel[1],
   selected_care_label_comp |-> sel[2]]

(***************************************************************************)
(* validate_and_fill as a state machine                                    *)
(***************************************************************************)
VARIABLES
  doc,               \* the parsed document's source: first page text and section tables
  bom_data,          \* the bom_data argument (supplier_lookup is kept apart)
  comparison_df,     \* the comparison_df argument: the list of input rows
  supplier_lookup,   \* bom_data["supplier_lookup"], the dict resolve_supplier writes to
  result,            \* the result DataFrame: one record per row
  components,        \* color_bom_lookup["components"]
  available_cw,      \* the keys of color_bom_lookup["SAP_codes"], in order
  care_codes,
  content_codes,
  bom_style,
  idx,               \* the number of rows the loop has finished
  pc,                \* validate_and_fill: "idle", "call", "loop", "done"
  pdf_pages,              \* parse_bom_pdf: pdf.pages
  page_no,                \* the number of pages the page loop has finished
  costing_detail_header,
  costing_detail_rows,
  tables_by_section,
  parse_result,           \* the result dict of parse_bom_pdf
  parse_pc,               \* parse_bom_pdf: "idle", "call", "pages", "returned", "raised"
  color_option_value,     \* normalize_colorway: its arguments and its return value
  available_colorways,
  matched,
  match_pc,               \* normalize_colorway: "idle", "call", "returned"
  norm_rows,              \* _rows_to_df: the rows argument
  norm_df,                \* the table _rows_to_df returned
  norm_pc,                \* _rows_to_df: "idle", "call", "returned", "again"
  workers,                \* the calls of resolve_supplier in flight: for each its position,
                          \* its mat_code and its locals cached and found, and its return value
  component_name,         \* normalize_component: its argument
  component_result,       \* its return value
  component_pc            \* normalize_component: "idle", "call", "returned"

fillVars ==
  <<doc, bom_data, comparison_df, supplier_lookup, result, components,
    available_cw, care_codes, content_codes, bom_style, idx, pc>>

parseVars ==
  <<pdf_pages, page_no, costing_detail_header, costing_detail_rows,
    tables_by_section, parse_result, parse_pc>>

matchVars == <<color_option_value, available_colorways, matched, match_pc>>

normVars == <<norm_rows, norm_df, norm_pc>>

raceVars == <<workers>>

compVars == <<component_name, component_result, component_pc>>

vars == <<fillVars, parseVars, matchVars, normVars, raceVars, compVars>>

\* validate_and_fill is not running
FillIdle ==
  /\ doc = DocBare
  /\ bom_data = BomData(DocBare, <<None, None>>)
  /\ comparison_df = <<>>
  /\ supplier_lookup = EmptyDict
  /\ result = <<>>
  /\ components = EmptyDict
  /\ available_cw = <<>>
  /\ care_codes = EmptyDict
  /\ content_codes = EmptyDict
  /\ bom_style = <<>>
  /\ idx = 0
  /\ pc = "idle"

\* parse_bom_pdf is not running
ParseIdle ==
  /\ pdf_pages = <<>>
  /\ page_no = 0
  /\ costing_detail_header = NoHeader
  /\ costing_detail_rows = <<>>
  /\ tables_by_section = EmptyDict
  /\ parse_result = EmptyDict
  /\ parse_pc = "idle"

\* normalize_colorway is not running
MatchIdle ==
  /\ color_option_value = <<>>
  /\ available_colorways = <<>>
  /\ matched = None
  /\ match_pc = "idle"

\* the callers of resolve_supplier
Workers == {1, 2}

\* a call of resolve_supplier that has not begun
NoCall == [pc |-> "idle", mat_code |-> <<>>, found |-> <<>>, ret |-> <<>>]

\* no call of resolve_supplier is interleaved with another
RaceIdle == workers = [w \in Workers |-> NoCall]

\* normalize_component is not running
CompIdle ==
  /\ component_name = <<>>
  /\ component_result = <<>>
  /\ component_pc = "idle"

\* _rows_to_df is not running
NormIdle ==
  /\ norm_rows = <<>>
  /\ norm_df = EmptyDF
  /\ norm_pc = "idle"

InitFill ==
  /\ doc \in Docs
  /\ \E sel \in Selections : bom_data = BomData(doc, sel)
  /\ comparison_df \in RowLists(MaxRows)
  /\ supplier_lookup = _build_supplier_lookup(doc.costing_detail)
  /\ result = <<>>
  /\ components = EmptyDict
  /\ available_cw = <<>>
  /\ care_codes = EmptyDict
  /\ content_codes = EmptyDict
  /\ bom_style = <<>>
  /\ idx = 0
  /\ pc = "call"
  /\ ParseIdle
  /\ MatchIdle
  /\ NormIdle
  /\ RaceIdle
  /\ CompIdle

\* the call with every colorway column of the Color BOM taken as a colorway key
StartAllColumns ==
  /\ pc = "call"
  /\ result' = [i \in 1..Len(comparison_df) |->
                  [style |-> comparison_df[i].style, color |-> comparison_df[i].color,
                   fields |-> StatusOnly(<<>>)]]
  /\ components' = extract_color_bom_lookup(bom_data.color_bom).components
  /\ available_cw' = SelectSeq([c \in 1..Len(bom_data.color_bom.columns) |->
                                  Strip(bom_data.color_bom.columns[c])], IsColorwayCol)
  /\ care_codes' = extract_care_codes(bom_data.care_report)
  /\ content_codes' = extract_content_codes(bom_data.content_report)
  /\ bom_style' = BomStyle(bom_data)
  /\ idx' = 0
  /\ pc' = "loop"
  /\ UNCHANGED <<doc, bom_data, comparison_df, supplier_lookup, parseVars, matchVars, normVars, raceVars, compVars>>

\* lines 122-138: the copy of the rows, the lookups, the new columns
Start ==
  /\ pc = "call"
  /\ result' = [i \in 1..Len(comparison_df) |->
                  [style |-> comparison_df[i].style, color |-> comparison_df[i].color,
                   fields |-> StatusOnly(<<>>)]]
  /\ components' = extract_color_bom_lookup(bom_data.color_bom).components
  /\ available_cw' = extract_color_bom_lookup(bom_data.color_bom).SAP_keys
  /\ care_codes' = extract_care_codes(bom_data.care_report)
  /\ content_codes' = extract_content_codes(bom_data.content_report)
  /\ bom_style' = BomStyle(bom_data)
  /\ idx' = 0
  /\ pc' = "loop"
  /\ UNCHANGED <<doc, bom_data, comparison_df, supplier_lookup, parseVars, matchVars, normVars, raceVars, compVars>>

\* the row the loop is at
CurRow == result[idx + 1]

\* the style check fails and the loop is left
RowStyleMismatchBreak ==
  /\ pc = "loop" /\ idx < Len(result)
  /\ IsStyleMismatch(BuyerStyle(CurRow), bom_style)
  /\ result' = [result EXCEPT ![idx + 1].fields["Validation Status"] =
                  StyleMismatchStatus(BuyerStyle(CurRow), bom_style)]
  /\ idx' = idx + 1
  /\ pc' = "done"
  /\ UNCHANGED <<doc, bom_data, comparison_df, supplier_lookup, components,
                 available_cw, care_codes, content_codes, bom_style,
                 parseVars, matchVars, normVars, raceVars, compVars>>

\* lines 230-234: the style check fails
RowStyleMismatch ==
  /\ pc = "loop" /\ idx < Len(result)
  /\ IsStyleMismatch(BuyerStyle(CurRow), bom_style)
  /\ result' = [result EXCEPT ![idx + 1].fields["Validation Status"] =
                  StyleMismatchStatus(BuyerStyle(CurRow), bom_style)]
  /\ idx' = idx + 1
  /\ UNCHANGED <<doc, bom_data, comparison_df, supplier_lookup, components,
                 available_cw, care_codes, content_codes, bom_style, pc,
                 parseVars, matchVars, normVars, raceVars, compVars>>

\* the colorway does not resolve and the derived cells are written all the same
RowUnknownColorwayFilled ==
  /\ pc = "loop" /\ idx < Len(result)
  /\ ~IsStyleMismatch(BuyerStyle(CurRow), bom_style)
  /\ normalize_colorway(ColorRaw(CurRow), available_cw) = None
  /\ result' = [result EXCEPT ![idx + 1].fields =
                  [c \in DerivedColumns \cup {"Validation Status"} |->
                     IF c = "Validation Status" THEN UnknownColorwayStatus(ColorRaw(CurRow))
                     ELSE NA]]
  /\ idx' = idx + 1
  /\ UNCHANGED <<doc, bom_data, comparison_df, supplier_lookup, components,
                 available_cw, care_codes, content_codes, bom_style, pc,
                 parseVars, matchVars, normVars, raceVars, compVars>>

\* lines 237-241: the colorway does not resolve
RowUnknownColorway ==
  /\ pc = "loop" /\ idx < Len(result)
  /\ ~IsStyleMismatch(BuyerStyle(CurRow), bom_style)
  /\ normalize_colorway(ColorRaw(CurRow), available_cw) = None
  /\ result' = [result EXCEPT ![idx + 1].fields["Validation Status"] =
                  UnknownColorwayStatus(ColorRaw(CurRow))]
  /\ idx' = idx + 1
  /\ UNCHANGED <<doc, bom_data, comparison_df, supplier_lookup, components,
                 available_cw, care_codes, content_codes, bom_style, pc,
                 parseVars, matchVars, normVars, raceVars, compVars>>

\* the row is filled with the Color/Option text itself used as the colorway key
RowFillRawKey ==
  /\ pc = "loop" /\ idx < Len(result)
  /\ ~IsStyleMismatch(BuyerStyle(CurRow), bom_style)
  /\ normalize_colorway(ColorRaw(CurRow), available_cw) # None
  /\ \E r \in {FillRow(bom_data, components, care_codes, content_codes,
                          supplier_lookup, ColorRaw(CurRow))} :
       /\ result' = [result EXCEPT ![idx + 1].fields = r.fields]
       /\ supplier_lookup' = r.supplier_lookup
  /\ idx' = idx + 1
  /\ UNCHANGED <<doc, bom_data, comparison_df, components,
                 available_cw, care_codes, content_codes, bom_style, pc,
                 parseVars, matchVars, normVars, raceVars, compVars>>

\* lines 243-316: the fields and the status of a row whose style and colorway resolve
RowFill ==
  /\ pc = "loop" /\ idx < Len(result)
  /\ ~IsStyleMismatch(BuyerStyle(CurRow), bom_style)
  /\ \E matched_cw \in {normalize_colorway(ColorRaw(CurRow), available_cw)} :
       /\ matched_cw # None
       /\ \E r \in {FillRow(bom_data, components, care_codes, content_codes,
                               supplier_lookup, matched_cw)} :
            /\ result' = [result EXCEPT ![idx + 1].fields = r.fields]
            /\ supplier_lookup' = r.supplier_lookup
  /\ idx' = idx + 1
  /\ UNCHANGED <<doc, bom_data, comparison_df, components,
                 available_cw, care_codes, content_codes, bom_style, pc,
                 parseVars, matchVars, normVars, raceVars, compVars>>

\* line 318: return result
Return ==
  /\ pc = "loop" /\ idx = Len(result)
  /\ pc' = "done"
  /\ UNCHANGED <<doc, bom_data, comparison_df, supplier_lookup, result, components,
                 available_cw, care_codes, content_codes, bom_style, idx,
                 parseVars, matchVars, normVars, raceVars, compVars>>

NextFill == Start \/ RowStyleMismatch \/ RowUnknownColorway \/ RowFill \/ Return

SpecFill == InitFill /\ [][NextFill]_vars

(***************************************************************************)
(* parse_bom_pdf as a state machine                                        *)
(***************************************************************************)
\* the pages a document is made of: the text extract_text returns (None for a page
\* without text), the tables extract_tables returns, and whether extract_tables raises
PageColorBom ==
  [text |-> <<"C","o","l","o","r"," ","B","O","M">> \o <<"\n">> \o <<"S","t","y","l","e",":"," ","C","L","2","8","8","0">>,
   tables |-> <<<<<<<<"C","o","m","p","o","n","e","n","t">>, <<"D","e","t","a","i","l","s">>, <<"0","1","0","-","B","l","a","c","k">>>>,
                  <<<<"S","A","P"," ","M","a","t","e","r","i","a","l"," ","C","o","d","e">>, None, <<"2","0","9","2","6","4","1","0","1","0">>>>,
                  <<<<"C","o","s","t","i","n","g"," ","B","O","M"," ","L","i","n","e"," ","S","l","o","t">>, <<"(","0","0","3","2","8","7",")">>, <<"W","h","i","t","e">>>>>>>>,
   raises |-> FALSE]

PageCostingHeader ==
  [text |-> <<"C","o","s","t","i","n","g"," ","B","O","M">> \o <<"\n">> \o <<"C","o","m","p","o","n","e","n","t"," ","M","a","t","e","r","i","a","l"," ","S","u","p","p","l","i","e","r">>,
   tables |-> <<<<<<<<"C","o","s","t","i","n","g"," ","B","O","M">>, None, None>>,
                  <<<<"C","o","m","p","o","n","e","n","t">>, <<"M","a","t","e","r","i","a","l">>, <<"S","u","p","p","l","i","e","r">>>>,
                  <<<<"L","a","b","e","l"," ","1">>, <<"0","0","3","2","8","7">>, <<"Y"," ","K"," ","K">>>>,
                  <<<<"L","a","b","e","l"," ","L","o","g","o"," ","1">>, <<"0","7","5","6","6","0">>>>>>>>,
   raises |-> FALSE]

PageCostingContinuation ==
  [text |-> <<"C","o","s","t","i","n","g"," ","B","O","M">>,
   tables |-> <<<<<<<<"C","o","s","t","i","n","g"," ","B","O","M"," ","L","i","n","e"," ","S","l","o","t">>, <<"F","2","5">>, <<"x">>>>,
                  <<<<"P","a","c","k","a","g","i","n","g"," ","3">>, <<"1","0","4","4","5","5">>, <<"P","a","c","k"," ","C","o">>, <<"V","N">>>>,
                  <<<<"H","a","n","g","t","a","g">>, <<"0","9","7","0","2","2">>>>>>>>,
   raises |-> FALSE]

PageCareText ==
  [text |-> <<"C","a","r","e"," ","R","e","p","o","r","t">> \o <<"\n">> \o <<" ","C","a","r","e"," ","C","o","d","e",":"," ","3","0","0","0"," ">> \o <<"\n", "\n">> \o <<"E","n","g","l","i","s","h">>,
   tables |-> <<>>,
   raises |-> FALSE]

PageRaises ==
  [text |-> <<"M","e","a","s","u","r","e","m","e","n","t"," ","c","h","a","r","t">>,
   tables |-> <<<<<<<<"P","O","M">>, <<"S">>>>>>>>,
   raises |-> TRUE]

PageBlank ==
  [text |-> None, tables |-> <<>>, raises |-> FALSE]

PageHangtag ==
  [text |-> <<"H","a","n","g","t","a","g"," ","R","e","p","o","r","t">>,
   tables |-> <<<<<<<<>>, <<"T","a","g">>, <<"T","a","g">>>>,
                  <<<<"H","T","1">>, <<"0","9","7","0","2","2">>, <<"x">>, <<"y">>>>,
                  <<<<>>, <<>>>>>>,
                <<>>>>,
   raises |-> FALSE]

\* a care report page with the words "Costing BOM Line Slot" in a cell of its table
PageCareCostingCell ==
  [text |-> <<"C","a","r","e"," ","R","e","p","o","r","t">> \o <<"\n">> \o <<"C","a","r","e"," ","C","o","d","e",":"," ","3","0","0","0"," ","I","n","s","t","r","u","c","t","i","o","n","s">> \o <<"\n">>
              \o <<"C","o","s","t","i","n","g"," ","B","O","M"," ","L","i","n","e"," ","S","l","o","t"," ","W","a","s","h">>,
   tables |-> <<<<<<<<"C","a","r","e"," ","C","o","d","e",":"," ","3","0","0","0">>, <<"I","n","s","t","r","u","c","t","i","o","n","s">>>>,
                  <<<<"C","o","s","t","i","n","g"," ","B","O","M"," ","L","i","n","e"," ","S","l","o","t">>, <<"W","a","s","h">>>>>>>>,
   raises |-> FALSE]

\* a costing continuation page with a second row for the material code 003287
PageCostingCollision ==
  [text |-> <<"C","o","s","t","i","n","g"," ","B","O","M">>,
   tables |-> <<<<<<<<"Z","i","p","p","e","r">>, <<"0","0","3","2","8","7">>, <<"Z","Z">>>>>>>>,
   raises |-> FALSE]

PageChoices ==
  {PageColorBom, PageCostingHeader, PageCostingContinuation, PageCareText,
   PageRaises, PageBlank, PageHangtag, PageCareCostingCell, PageCostingCollision}

\* the longest document
MaxPages == 2

InitParse ==
  /\ pdf_pages \in UNION {[1..k -> PageChoices] : k \in 0..MaxPages}
  /\ page_no = 0
  /\ costing_detail_header = NoHeader
  /\ costing_detail_rows = <<>>
  /\ tables_by_section = EmptyDict
  /\ parse_result = [k \in {"metadata"} |-> EmptyDict]
  /\ parse_pc = "call"
  /\ FillIdle
  /\ MatchIdle
  /\ NormIdle
  /\ RaceIdle
  /\ CompIdle

\* lines 145-146: a document without pages
OpenEmpty ==
  /\ parse_pc = "call" /\ Len(pdf_pages) = 0
  /\ parse_pc' = "raised"
  /\ UNCHANGED <<pdf_pages, page_no, costing_detail_header, costing_detail_rows,
                 tables_by_section, parse_result, fillVars, matchVars, normVars, raceVars, compVars>>

\* lines 148-154: the metadata of the first page
Open ==
  /\ parse_pc = "call" /\ Len(pdf_pages) > 0
  /\ parse_result' =
       [parse_result EXCEPT !["metadata"] =
          _extract_metadata(IF pdf_pages[1].text = None THEN <<>> ELSE pdf_pages[1].text)]
  /\ parse_pc' = "pages"
  /\ UNCHANGED <<pdf_pages, page_no, costing_detail_header, costing_detail_rows,
                 tables_by_section, fillVars, matchVars, normVars, raceVars, compVars>>

\* lines 156-227: one page of the page loop
ParsePage ==
  /\ parse_pc = "pages" /\ page_no < Len(pdf_pages)
  /\ LET page == pdf_pages[page_no + 1]
         section == _detect_section(IF page.text = None THEN <<>> ELSE page.text)
         st == AfterTables([header |-> costing_detail_header, rows |-> costing_detail_rows,
                            tables |-> tables_by_section],
                           section, PageTables(page), 1)
     IN  /\ costing_detail_header' = st.header
         /\ costing_detail_rows' = st.rows
         /\ tables_by_section' = st.tables
  /\ page_no' = page_no + 1
  /\ UNCHANGED <<pdf_pages, parse_result, parse_pc, fillVars, matchVars, normVars, raceVars, compVars>>

\* lines 229-280: the section tables, the default keys, the supplier lookup
Build ==
  /\ parse_pc = "pages" /\ page_no = Len(pdf_pages)
  /\ LET cd == CostingDetailDF(costing_detail_header, costing_detail_rows)
         secs == [k \in DOMAIN parse_result \cup {"costing_detail"} \cup DOMAIN tables_by_section |->
                    IF k \in DOMAIN tables_by_section
                    THEN _rows_to_df(SectionRows(tables_by_section[k]))
                    ELSE IF k = "costing_detail" THEN cd
                    ELSE parse_result[k]]
         all == WithDefaults(secs, KnownSections)
     IN  parse_result' =
           [k \in DOMAIN all \cup {"supplier_lookup"} |->
              IF k = "supplier_lookup" THEN _build_supplier_lookup(all["costing_detail"])
              ELSE all[k]]
  /\ parse_pc' = "returned"
  /\ UNCHANGED <<pdf_pages, page_no, costing_detail_header, costing_detail_rows,
                 tables_by_section, fillVars, matchVars, normVars, raceVars, compVars>>

NextParse == OpenEmpty \/ Open \/ ParsePage \/ Build

SpecParse == InitParse /\ [][NextParse]_vars

(***************************************************************************)
(* normalize_colorway as a state machine: one call                         *)
(***************************************************************************)
ColorInputs ==
  {<<>>, <<" ">>, <<"0">>, <<" ","9"," ">>, <<"N","/","A">>, <<"n","/","a"," ">>, <<"N","a","N">>, <<"N","o","n","e">>, <<"N","U","L","L">>,
   <<"0","1","0">>, <<"0","1","0","-","B","l","a","c","k">>, <<"0","1","0","-","b","l","a","c","k">>, <<"C","O","L","-","4","6","4"," ","N","A","V","Y">>, <<"C","a","m","e","l">>, <<"x","x">>,
   <<"C","O","L","-","4","6","4"," ","C","O","L","L","E","G","I","A","T","E"," ","N","A","V","Y">>, <<"0","1","0"," ","C","a","m","e","l">>, <<"1","0">>, <<"C","O","L","-","0","9">>, <<"B","l","a","c","k">>,
   <<"B","r","o","w","n"," ","N","a","v","y">>, <<"a","m","e","l">>}

CandidateLists ==
  {<<>>,
   <<<<"0","1","0","-","B","l","a","c","k">>, <<"2","2","4","-","C","a","m","e","l"," ","B","r","o","w","n">>>>,
   <<<<"N","/","A">>, <<"0">>, <<"9">>, <<"n","u","l","l">>>>,
   <<<<"4","6","4","-","C","o","l","l","e","g","i","a","t","e"," ","N","a","v","y">>>>,
   <<<<"N","a","N">>, <<"N","o","n","e">>, <<" ">>>>,
   <<<<"N","a","v","y">>, <<"X","X","-","1">>, <<"0","1","0","-">>>>,
   <<<<"n","o","n","e">>, <<"n","a","n">>, <<"n","/","a">>>>,
   <<<<"2","2","4","-","C","a","m","e","l"," ","B","r","o","w","n">>, <<"0","1","0","-","B","l","a","c","k">>>>,
   <<<<"0","1","0","-","B","l","a","c","k">>, <<"2","2","4","-","B","l","a","c","k">>>>,
   <<<<"0","0","9","-","B","l","a","c","k">>>>,
   <<<<"2","2","4","-","C","a","m","e","l"," ","B","r","o","w","n">>, <<"4","6","4","-","N","a","v","y">>>>}

InitMatch ==
  /\ color_option_value \in ColorInputs
  /\ available_colorways \in CandidateLists
  /\ matched = None
  /\ match_pc = "call"
  /\ FillIdle
  /\ ParseIdle
  /\ NormIdle
  /\ RaceIdle
  /\ CompIdle

\* lines 96-159: the call and its return value
Match ==
  /\ match_pc = "call"
  /\ matched' = normalize_colorway(color_option_value, available_colorways)
  /\ match_pc' = "returned"
  /\ UNCHANGED <<color_option_value, available_colorways, fillVars, parseVars, normVars, raceVars, compVars>>

NextMatch == Match

SpecMatch == InitMatch /\ [][NextMatch]_vars

(***************************************************************************)
(* _rows_to_df as a state machine: a call, and a second call on the header *)
(* and the rows of the table the first call returned                       *)
(***************************************************************************)
\* the cells of the raw rows
NormCells == {<<>>, <<"A">>, <<"A","_","1">>}

\* the raw rows: one to three cells
NormRowChoices == UNION {[1..w -> NormCells] : w \in {1, 2, 3}}

\* the longest raw table
MaxTableRows == 2

InitNormalize ==
  /\ norm_rows \in UNION {[1..k -> NormRowChoices] : k \in 0..MaxTableRows}
  /\ norm_df = EmptyDF
  /\ norm_pc = "call"
  /\ FillIdle
  /\ ParseIdle
  /\ MatchIdle
  /\ RaceIdle
  /\ CompIdle

\* lines 35-75: the call
Normalize ==
  /\ norm_pc = "call"
  /\ norm_df' = _rows_to_df(norm_rows)
  /\ norm_pc' = "returned"
  /\ UNCHANGED <<norm_rows, fillVars, parseVars, matchVars, raceVars, compVars>>

\* the header and the rows of the returned table are passed to _rows_to_df again
NormalizeAgain ==
  /\ norm_pc = "returned"
  /\ norm_rows' = <<norm_df.columns>> \o norm_df.rows
  /\ norm_df' = _rows_to_df(<<norm_df.columns>> \o norm_df.rows)
  /\ norm_pc' = "again"
  /\ UNCHANGED <<fillVars, parseVars, matchVars, raceVars, compVars>>

NextNormalize == Normalize \/ NormalizeAgain

SpecNormalize == InitNormalize /\ [][NextNormalize]_vars

(***************************************************************************)
(* resolve_supplier called by two callers whose steps interleave           *)
(***************************************************************************)
\* the material codes the callers ask for
RaceCodes == {<<"0","0","3","2","8","7">>, <<"3","2","8","7">>, <<"7","5","6","6","0">>, <<"0","9","7","0","2","2">>, <<"9","9","9">>, <<"N","/","A">>}

InitRace ==
  /\ doc \in {DocFull, DocPartial}
  /\ bom_data = BomData(doc, <<None, None>>)
  /\ supplier_lookup = _build_supplier_lookup(doc.costing_detail)
  /\ comparison_df = <<>>
  /\ result = <<>>
  /\ components = EmptyDict
  /\ available_cw = <<>>
  /\ care_codes = EmptyDict
  /\ content_codes = EmptyDict
  /\ bom_style = <<>>
  /\ idx = 0
  /\ pc = "parallel"
  /\ \E codes \in [Workers -> RaceCodes] :
       workers = [w \in Workers |->
                    [pc |-> "call", mat_code |-> codes[w], found |-> <<>>, ret |-> <<>>]]
  /\ ParseIdle
  /\ MatchIdle
  /\ NormIdle
  /\ CompIdle

RaceUnchanged ==
  UNCHANGED <<doc, bom_data, comparison_df, result, components, available_cw,
              care_codes, content_codes, bom_style, idx, pc, parseVars, matchVars, normVars,
              compVars>>

\* lines 146-150: the guard, the read of the cache and the return of a cached supplier
ReadCache(w) ==
  /\ workers[w].pc = "call"
  /\ \E cached \in {Get(supplier_lookup, workers[w].mat_code, <<>>)} :
       workers' = [workers EXCEPT ![w] =
         IF workers[w].mat_code = <<>> \/ workers[w].mat_code = NA
         THEN [@ EXCEPT !.pc = "returned", !.ret = NA]
         ELSE IF UsableSupplier(cached)
         THEN [@ EXCEPT !.pc = "returned", !.ret = _fix_sup(cached)]
         ELSE [@ EXCEPT !.pc = "scan"]]
  /\ UNCHANGED supplier_lookup
  /\ RaceUnchanged

\* line 151: the scan of the costing detail table
Scan(w) ==
  /\ workers[w].pc = "scan"
  /\ workers' = [workers EXCEPT ![w] =
       [@ EXCEPT !.pc = "write",
                 !.found = _find_supplier(bom_data.costing_detail, workers[w].mat_code)]]
  /\ UNCHANGED supplier_lookup
  /\ RaceUnchanged

\* lines 152-154: the write of the cache and the return
WriteCache(w) ==
  /\ workers[w].pc = "write"
  /\ supplier_lookup' = IF workers[w].found # NA
                        THEN Put(supplier_lookup, workers[w].mat_code, workers[w].found)
                        ELSE supplier_lookup
  /\ workers' = [workers EXCEPT ![w] = [@ EXCEPT !.pc = "returned", !.ret = workers[w].found]]
  /\ RaceUnchanged

NextRace == \E w \in Workers : ReadCache(w) \/ Scan(w) \/ WriteCache(w)

SpecRace == InitRace /\ [][NextRace]_vars

(***************************************************************************)
(* validate_and_fill on documents that differ in their content report      *)
(***************************************************************************)
\* the rows of a content report: colorway rows, rows with a code block, a row with a
\* block and a colorway number, a row with neither
ContentRowChoices ==
  {<<<<>>, <<"0","1","0">>>>,
   <<<<"C","O","N","T","E","N","T"," ","C","O","D","E",":"," ","A","B","C"," ","L","i","n","i","n","g",":"," ","S","i","l","k">>, <<>>>>,
   <<<<"c","o","n","t","e","n","t"," ","c","o","d","e",":"," ","X","Y","Z"," ","S","h","e","l","l",":"," ","W","o","o","l">>, <<"2","2","4">>>>,
   <<<<"B","l","a","c","k">>, <<"n","/","a">>>>}

\* the column names of a content report: with a code block, without one
ContentHeaders ==
  {<<<<"C","O","N","T","E","N","T"," ","C","O","D","E",":"," ","S","R","H"," ","S","h","e","l","l",":"," ","5","5","%"," ","P","o","l","y",","," ","L","i","n","i","n","g",":"," ","N","y","l","o","n">>, <<"C","o","l","o","r"," ","W","a","y"," ","N","u","m","b","e","r">>>>,
   <<<<"C","o","l","o","r"," ","W","a","y"," ","N","a","m","e">>, <<"C","o","l","o","r"," ","W","a","y"," ","N","u","m","b","e","r">>>>}

\* the longest content report
MaxContentRows == 3

ContentTables ==
  {DF(h, rows) : h \in ContentHeaders,
                 rows \in UNION {[1..k -> ContentRowChoices] : k \in 1..MaxContentRows}}

\* the document with nothing but a content report
DocWithContent(t) == [DocBare EXCEPT !.content_report = t]

InitContent ==
  /\ doc \in {DocWithContent(t) : t \in ContentTables}
  /\ bom_data = BomData(doc, <<None, None>>)
  /\ comparison_df = <<>>
  /\ supplier_lookup = _build_supplier_lookup(doc.costing_detail)
  /\ result = <<>>
  /\ components = EmptyDict
  /\ available_cw = <<>>
  /\ care_codes = EmptyDict
  /\ content_codes = EmptyDict
  /\ bom_style = <<>>
  /\ idx = 0
  /\ pc = "call"
  /\ ParseIdle
  /\ MatchIdle
  /\ NormIdle
  /\ RaceIdle
  /\ CompIdle

NextContent == Start \/ Return

SpecContent == InitContent /\ [][NextContent]_vars

(***************************************************************************)
(* validate_and_fill on documents that differ in one Color BOM row         *)
(***************************************************************************)
\* the Details cells of the row of Label Logo 1
LogoDetails == {<<>>, <<"0","7","5","6","6","0"," ","L","o","g","o">>, <<"T","a","g","-","1","2","3","4"," ","(","5","6","7","8",")">>, <<"L","o","g","o"," ","1","2">>, <<"[","4","3","2","1","]",","," ","x">>, <<"T","a","g","-","1","2","3","4">>}

\* the colorway cells of the row of Label Logo 1
LogoCells == {<<"B","l","a","c","k">>, <<"0","9","7","0","2","2"," ","R","F","I","D">>, <<"1","2"," ","x","-","3","4","5","6","7","8">>}

\* the complete document with another row for Label Logo 1
DocWithLogo(details, c1, c2) ==
  [DocFull EXCEPT !.color_bom.rows[3] = <<<<"L","a","b","e","l"," ","L","o","g","o"," ","1">>, details, c1, c2>>]

InitCodes ==
  /\ doc \in {DocWithLogo(d, c1, c2) : d \in LogoDetails, c1 \in LogoCells, c2 \in LogoCells}
  /\ bom_data = BomData(doc, <<None, None>>)
  /\ comparison_df = <<[style |-> <<"C","L","2","8","8","0">>, color |-> <<"0","1","0">>]>>
  /\ supplier_lookup = _build_supplier_lookup(doc.costing_detail)
  /\ result = <<>>
  /\ components = EmptyDict
  /\ available_cw = <<>>
  /\ care_codes = EmptyDict
  /\ content_codes = EmptyDict
  /\ bom_style = <<>>
  /\ idx = 0
  /\ pc = "call"
  /\ ParseIdle
  /\ MatchIdle
  /\ NormIdle
  /\ RaceIdle
  /\ CompIdle

NextCodes == Start \/ RowFill \/ Return

SpecCodes == InitCodes /\ [][NextCodes]_vars

(***************************************************************************)
(* validate_and_fill under label selections whose component name has " - " *)
(***************************************************************************)
\* the rows of the Color BOM for the components "Label - A" and "Label"
LabelRows ==
  {<<>>,
   <<<<<<"L","a","b","e","l"," ","-"," ","A">>, <<"(","1","1","1","1","1","1",")"," ","W","o","v","e","n">>, <<"R","e","d">>, <<"P","i","n","k">>>>>>,
   <<<<<<"L","a","b","e","l"," ","-"," ","A">>, <<"(","1","1","1","1","1","1",")"," ","W","o","v","e","n">>, <<"R","e","d">>, <<"P","i","n","k">>>>,
     <<<<"L","a","b","e","l">>, <<"(","2","2","2","2","2","2",")"," ","P","r","i","n","t">>, <<"B","l","u","e">>, <<"N","a","v","y">>>>>>}

\* the complete document with these rows added to its Color BOM
DocWithLabels(rows) ==
  [DocFull EXCEPT !.color_bom.rows = DocFull.color_bom.rows \o rows]

\* the selection tokens of the label dropdowns
LabelTokens ==
  {None, <<"L","a","b","e","l"," ","1">>, <<"L","a","b","e","l"," ","1"," ","-"," ","0","0","3","2","8","7">>, <<"L","a","b","e","l"," ","-"," ","A">>, <<"L","a","b","e","l"," ","-"," ","A"," ","-"," ","1","1","1","1","1","1">>, <<"L","a","b","e","l">>}

InitLabels ==
  /\ doc \in {DocWithLabels(rows) : rows \in LabelRows}
  /\ bom_data \in {BomData(doc, <<main, care>>) : main \in LabelTokens, care \in LabelTokens}
  /\ comparison_df = <<[style |-> <<"C","L","2","8","8","0">>, color |-> <<"0","1","0">>]>>
  /\ supplier_lookup = _build_supplier_lookup(doc.costing_detail)
  /\ result = <<>>
  /\ components = EmptyDict
  /\ available_cw = <<>>
  /\ care_codes = EmptyDict
  /\ content_codes = EmptyDict
  /\ bom_style = <<>>
  /\ idx = 0
  /\ pc = "call"
  /\ ParseIdle
  /\ MatchIdle
  /\ NormIdle
  /\ RaceIdle
  /\ CompIdle

NextLabels == Start \/ RowFill \/ Return

SpecLabels == InitLabels /\ [][NextLabels]_vars

(***************************************************************************)
(* validate_and_fill over rows of one style: the supplier cache from row   *)
(* to row and the colorways of the documents                               *)
(***************************************************************************)
MaxCacheRows == 2

\* comparison rows of the style of the documents: two colorways of the complete
\* document and a colour no document has
CacheRowChoices ==
  {[style |-> <<"C","L","2","8","8","0">>, color |-> <<"0","1","0">>],
   [style |-> <<"C","L","2","8","8","0">>, color |-> <<"2","2","4">>],
   [style |-> <<"C","L","2","8","8","0">>, color |-> <<"O","l","i","v","e">>]}

CacheRows == UNION {[1..n -> CacheRowChoices] : n \in 0..MaxCacheRows}

InitCache ==
  /\ doc \in Docs
  /\ bom_data = BomData(doc, <<<<"L","a","b","e","l"," ","1"," ","-"," ","0","0","3","2","8","7">>, <<"L","a","b","e","l"," ","1">>>>)
  /\ comparison_df \in CacheRows
  /\ supplier_lookup = _build_supplier_lookup(doc.costing_detail)
  /\ result = <<>>
  /\ components = EmptyDict
  /\ available_cw = <<>>
  /\ care_codes = EmptyDict
  /\ content_codes = EmptyDict
  /\ bom_style = <<>>
  /\ idx = 0
  /\ pc = "call"
  /\ ParseIdle
  /\ MatchIdle
  /\ NormIdle
  /\ RaceIdle
  /\ CompIdle

NextCache == Start \/ RowUnknownColorway \/ RowFill \/ Return

SpecCache == InitCache /\ [][NextCache]_vars

(***************************************************************************)
(* validate_and_fill on documents that differ in the SAP Material Code row *)
(* and in the name of the second colorway                                  *)
(***************************************************************************)
\* the SAP Material Code rows of the Color BOM: none, or one with each cell set or empty
SapRows ==
  {<<>>} \cup {<<<<<<"S","A","P"," ","M","a","t","e","r","i","a","l"," ","C","o","d","e">>, <<>>, c1, c2>>>> :
                 c1 \in {<<>>, <<"2","0","9","2","6","4","1","0","1","0">>}, c2 \in {<<>>, <<"2","0","9","2","6","4","1","2","2","4">>}}

\* the names of the second colorway column
SecondColorways == {<<"2","2","4","-","C","a","m","e","l"," ","B","r","o","w","n">>, <<"0","1","1","-","B","l","a","c","k"," ","H","e","a","t","h","e","r">>}

\* the complete document with the SAP row and the second colorway column replaced
DocWithSap(sap, cw2) ==
  [DocFull EXCEPT !.color_bom =
     DF(<<<<"C","o","m","p","o","n","e","n","t">>, <<"D","e","t","a","i","l","s">>, <<"0","1","0","-","B","l","a","c","k">>, cw2>>, sap \o Tail(DocFull.color_bom.rows))]

\* the Color/Option texts of the comparison row
ColorwayTexts ==
  {<<"0","1","0","-","B","l","a","c","k">>, <<"0","1","0">>, <<"2","2","4","-","C","a","m","e","l"," ","B","r","o","w","n">>, <<"0","1","1","-","B","l","a","c","k"," ","H","e","a","t","h","e","r">>, <<"2","2","4">>, <<"O","l","i","v","e">>}

InitColorways ==
  /\ doc \in {DocWithSap(sap, cw2) : sap \in SapRows, cw2 \in SecondColorways}
  /\ bom_data = BomData(doc, <<<<"L","a","b","e","l"," ","1"," ","-"," ","0","0","3","2","8","7">>, <<"L","a","b","e","l"," ","1">>>>)
  /\ comparison_df \in {<<[style |-> <<"C","L","2","8","8","0">>, color |-> t]>> : t \in ColorwayTexts}
  /\ supplier_lookup = _build_supplier_lookup(doc.costing_detail)
  /\ result = <<>>
  /\ components = EmptyDict
  /\ available_cw = <<>>
  /\ care_codes = EmptyDict
  /\ content_codes = EmptyDict
  /\ bom_style = <<>>
  /\ idx = 0
  /\ pc = "call"
  /\ ParseIdle
  /\ MatchIdle
  /\ NormIdle
  /\ RaceIdle
  /\ CompIdle

NextColorways == Start \/ RowUnknownColorway \/ RowFill \/ Return

SpecColorways == InitColorways /\ [][NextColorways]_vars

(***************************************************************************)
(* normalize_component as a state machine: one call                        *)
(***************************************************************************)
\* the names asked for: every canonical name and alias of the table, and names in other
\* case, with blanks around them, with words added, and unknown ones
ComponentInputs ==
  {COMPONENT_ALIASES[k].canonical : k \in 1..Len(COMPONENT_ALIASES)}
    \cup UNION {SeqToSet(COMPONENT_ALIASES[k].aliases) : k \in 1..Len(COMPONENT_ALIASES)}
    \cup {None, <<>>, <<" ">>, <<"S","H","E","L","L"," ","2">>, <<" ","M","a","i","n"," ","L","a","b","e","l"," ">>, <<"Z","i","p","p","e","r">>, <<"S","h","e","l","l"," ","2"," ","l","i","n","i","n","g">>,
          <<"C","a","r","t","o","n">>, <<"F","u","r">>, <<"L","a","b","e","l">>, <<"R","F","I","D"," ","h","a","n","g","t","a","g">>, <<"T","h","r","e","a","d"," ","1">>}

InitComponent ==
  /\ component_name \in ComponentInputs
  /\ component_result = <<>>
  /\ component_pc = "call"
  /\ FillIdle
  /\ ParseIdle
  /\ MatchIdle
  /\ NormIdle
  /\ RaceIdle

\* lines 162-172: the call and its return value
Component ==
  /\ component_pc = "call"
  /\ component_result' = normalize_component(component_name)
  /\ component_pc' = "returned"
  /\ UNCHANGED <<component_name, fillVars, parseVars, matchVars, normVars, raceVars>>

NextComponent == Component

SpecComponent == InitComponent /\ [][NextComponent]_vars

(***************************************************************************)
(* The entry points together: a run is one call of one of them             *)
(***************************************************************************)
Init == InitFill \/ InitParse \/ InitMatch \/ InitNormalize \/ InitRace \/ InitComponent

Next == NextFill \/ NextParse \/ NextMatch \/ NextNormalize \/ NextRace \/ NextComponent

Spec == Init /\ [][Next]_vars

\* a run is a call of normalize_colorway or of validate_and_fill
InitKeys == InitMatch \/ InitFill

NextKeys == NextMatch \/ NextFill

SpecKeys == InitKeys /\ [][NextKeys]_vars

\* a run is a call of _rows_to_df or of parse_bom_pdf
InitTables == InitNormalize \/ InitParse

NextTables == NextNormalize \/ NextParse

SpecTables == InitTables /\ [][NextTables]_vars

(***************************************************************************)
(* Properties of parse_bom_pdf (SpecParse)                                 *)
(***************************************************************************)
\* the section keys every result carries
SectionKeys ==
  {"color_bom", "colorless_bom", "color_specification", "costing_summary",
   "costing_detail", "care_report", "content_report", "measurements",
   "sales_sample", "hangtag_report"}

\* a table value: column names and rows
IsTable(v) == DOMAIN v = {"columns", "rows"}

IsGuardedInput(v) ==
  \/ v = <<>>
  \/ Len(v) < 2
  \/ Len(Strip(v)) < 2
  \/ Lower(Strip(v)) \in {<<"n","/","a">>, <<"n","a","n">>, <<"n","o","n","e">>, <<"n","u","l","l">>}

\* C10: normalize_colorway returns None for an input that is empty, shorter than two
\* characters or a null-like text (compared trimmed and case-insensitively), also when a
\* candidate equals the input, and returns None for every input when there is no candidate.
C10_Guard ==
  match_pc = "returned" =>
    /\ IsGuardedInput(color_option_value) => matched = None
    /\ available_colorways = <<>> => matched = None

\* the call returned None for input "N/A" although "N/A" is one of the candidates
C10_Witness ==
  /\ match_pc = "returned"
  /\ color_option_value = <<"N","/","A">>
  /\ \E i \in 1..Len(available_colorways) : available_colorways[i] = <<"N","/","A">>
  /\ matched = None

(***************************************************************************)
(* Properties of validate_and_fill (SpecFill)                              *)
(***************************************************************************)
\* the rows the loop has finished
Processed == IF pc \in {"loop", "done"} THEN 1..idx ELSE {}

\* the status cell of row i
Status(i) == result[i].fields["Validation Status"]

\* the buyer style of row i and the style validate_and_fill reads from bom_data, trimmed
BuyerText(i) == Strip(Str(comparison_df[i].style))

DocStyleText == Strip(Str(bom_data.metadata.style))

\* both styles are non-empty and neither contains the other, compared case-insensitively
StylesDisagree(i) ==
  /\ BuyerText(i) # <<>> /\ DocStyleText # <<>>
  /\ ~Contains(Lower(BuyerText(i)), Lower(DocStyleText))
  /\ ~Contains(Lower(DocStyleText), Lower(BuyerText(i)))

\* no derived cell of row i was written
NothingFilled(i) == \A c \in DerivedColumns : result[i].fields[c] = <<>>

\* the colorway key the colour text of row i resolves to among the document's keys
ResolvedColorway(i) ==
  normalize_colorway(Strip(Str(comparison_df[i].color)), available_cw)

\* row i is finished and passed the style check and the colorway resolution
Classified(i) == i \in Processed /\ ~StylesDisagree(i) /\ ResolvedColorway(i) # None

\* the number of derived cells of row i equal to "N/A"
NotFound(i) == Cardinality({c \in DerivedColumns : result[i].fields[c] = NA})

\* C2: a finished row whose buyer style and document style are both non-empty and do
\* not contain one another (case-insensitively) has the status "<cross mark> Error: Style
\* mismatch (<buyer> vs <doc>)", the styles trimmed and upper-cased, and none of its
\* nineteen derived cells written.
C2_StyleMismatchRow ==
  \A i \in Processed :
    StylesDisagree(i) =>
      /\ Status(i) = <<CrossMark>> \o <<" ","E","r","r","o","r",":"," ","S","t","y","l","e"," ","m","i","s","m","a","t","c","h"," ","(">> \o Upper(BuyerText(i))
                       \o <<" ","v","s"," ">> \o Upper(DocStyleText) \o <<")">>
      /\ NothingFilled(i)

\* the run ended with a row of style XX9999 marked as a mismatch with CL2880
C2_Witness ==
  /\ pc = "done"
  /\ \E i \in Processed :
       /\ comparison_df[i].style = <<"X","X","9","9","9","9">>
       /\ Status(i) = <<CrossMark>> \o <<" ","E","r","r","o","r",":"," ","S","t","y","l","e"," ","m","i","s","m","a","t","c","h"," ","(","X","X","9","9","9","9"," ","v","s"," ","C","L","2","8","8","0",")">>
       /\ NothingFilled(i)

\* the style the first page of the document states: None without a Style line
StatedStyle == MetaValue(doc.first_text, <<"S","t","y","l","e">>)

\* row i has a buyer style: the cell is not empty
BuyerPresent(i) == comparison_df[i].style # NaN /\ Strip(Str(comparison_df[i].style)) # <<>>

\* C3: a finished row has a style-mismatch status if and only if its buyer style and the
\* style the document states are both present and neither is a case-insensitive
\* substring of the other; a row without buyer style and a document without style are
\* never a mismatch.
C3_MismatchIffBothPresent ==
  \A i \in Processed :
    StartsWith(Status(i), <<CrossMark>> \o <<" ","E","r","r","o","r",":"," ","S","t","y","l","e"," ","m","i","s","m","a","t","c","h">>)
      <=> /\ BuyerPresent(i)
          /\ StatedStyle # None /\ StatedStyle # <<>>
          /\ ~Contains(Lower(BuyerText(i)), Lower(StatedStyle))
          /\ ~Contains(Lower(StatedStyle), Lower(BuyerText(i)))

\* C4: a finished row that passes the style check and whose colour text resolves to no
\* colorway key of the document has an "Error: Unknown colorway" status and no derived
\* cell written; a row that passes both has all its derived cells written, so only the
\* two identity failures leave cells unwritten.
C4_UnknownColorwayRow ==
  \A i \in Processed :
    ~StylesDisagree(i) =>
      IF ResolvedColorway(i) = None
      THEN /\ Status(i) = <<CrossMark>> \o <<" ","E","r","r","o","r",":"," ","U","n","k","n","o","w","n"," ","c","o","l","o","r","w","a","y"," ","'">>
                            \o Strip(Str(comparison_df[i].color)) \o <<"'">>
           /\ NothingFilled(i)
      ELSE \A c \in DerivedColumns : result[i].fields[c] # <<>>

\* the run ended with a row of matching style and colour 999 marked as unknown colorway
C4_Witness ==
  /\ pc = "done"
  /\ \E i \in Processed :
       /\ comparison_df[i].style = <<"C","L","2","8","8","0">> /\ comparison_df[i].color = <<"9","9","9">>
       /\ ~StylesDisagree(i)
       /\ Status(i) = <<CrossMark>> \o <<" ","E","r","r","o","r",":"," ","U","n","k","n","o","w","n"," ","c","o","l","o","r","w","a","y"," ","'","9","9","9","'">>
       /\ NothingFilled(i)

\* C5: for a row that reached the status classification, n being the number of its
\* nineteen derived cells equal to "N/A": the status is Validated iff n = 0, Partial iff
\* 0 < n < 19, and "Error: No BOM data matched" iff n = 19.
C5_StatusCountsNA ==
  \A i \in Processed :
    Classified(i) =>
      /\ Status(i) = <<CheckMark>> \o <<" ","V","a","l","i","d","a","t","e","d">> <=> NotFound(i) = 0
      /\ Status(i) = <<WarningSign, VariationSelector16>> \o <<" ","P","a","r","t","i","a","l">>
           <=> (0 < NotFound(i) /\ NotFound(i) < 19)
      /\ Status(i) = <<CrossMark>> \o <<" ","E","r","r","o","r",":"," ","N","o"," ","B","O","M"," ","d","a","t","a"," ","m","a","t","c","h","e","d">> <=> NotFound(i) = 19

\* a run ended with a classified row whose nineteen derived cells are all "N/A" and
\* whose status is the error, not Partial
C5_Witness ==
  /\ pc = "done"
  /\ \E i \in Processed :
       /\ Classified(i) /\ NotFound(i) = 19
       /\ Status(i) = <<CrossMark>> \o <<" ","E","r","r","o","r",":"," ","N","o"," ","B","O","M"," ","d","a","t","a"," ","m","a","t","c","h","e","d">>

\* the component name and the display id of the caller's main-label selection
MainSelection == bom_data.selected_main_label_comp

MainSelectionName ==
  IF MainSelection = None \/ MainSelection = <<>> THEN <<>>
  ELSE IF Contains(MainSelection, <<" ","-"," ">>)
       THEN Strip(Take(MainSelection, LastIndexOf(MainSelection, <<" ","-"," ">>) - 1))
       ELSE MainSelection

MainSelectionId ==
  IF MainSelection = None \/ MainSelection = <<>> \/ ~Contains(MainSelection, <<" ","-"," ">>)
  THEN <<>>
  ELSE Strip(Drop(MainSelection, LastIndexOf(MainSelection, <<" ","-"," ">>) + 2))

\* the component index has no entry for the selected main-label component
NoMainLabelEntry == MainSelectionName \notin DOMAIN components

\* C6 as stated: a classified row of a document whose component index lacks the selected
\* main-label component has Main Label "N/A" and the status Partial.
C6_MissingMainLabelPartial ==
  \A i \in Processed :
    (Classified(i) /\ NoMainLabelEntry) =>
      /\ result[i].fields["Main Label"] = NA
      /\ Status(i) = <<WarningSign, VariationSelector16>> \o <<" ","P","a","r","t","i","a","l">>

\* C6 amended: a classified row of a document whose component index lacks the selected
\* main-label component has Main Label Supplier "N/A" and a Main Label equal to the
\* display id of the selection, "N/A" when the selection has none; the row is never
\* Validated: it is Partial when some derived cell resolved and "Error: No BOM data
\* matched" when none did.
C6_MissingMainLabel ==
  \A i \in Processed :
    (Classified(i) /\ NoMainLabelEntry) =>
      /\ result[i].fields["Main Label Supplier"] = NA
      /\ result[i].fields["Main Label"] = IF MainSelectionId # <<>> THEN MainSelectionId ELSE NA
      /\ Status(i) # <<CheckMark>> \o <<" ","V","a","l","i","d","a","t","e","d">>
      /\ Status(i) = <<WarningSign, VariationSelector16>> \o <<" ","P","a","r","t","i","a","l">>
           <=> \E c \in DerivedColumns : result[i].fields[c] # NA
      /\ Status(i) = <<CrossMark>> \o <<" ","E","r","r","o","r",":"," ","N","o"," ","B","O","M"," ","d","a","t","a"," ","m","a","t","c","h","e","d">>
           <=> \A c \in DerivedColumns : result[i].fields[c] = NA

\* the scenario of the claim: style CL2880 and colour 010, no entry for the selected
\* component, Main Label "N/A" and the status Partial
C6_Witness ==
  /\ pc = "done"
  /\ NoMainLabelEntry
  /\ \E i \in Processed :
       /\ comparison_df[i].style = <<"C","L","2","8","8","0">> /\ comparison_df[i].color = <<"0","1","0">>
       /\ Classified(i)
       /\ result[i].fields["Main Label"] = NA
       /\ Status(i) = <<WarningSign, VariationSelector16>> \o <<" ","P","a","r","t","i","a","l">>

\* C7: every derived cell of a classified row holds a non-empty string: "N/A" or a
\* resolved value, never a blank, None or NaN.
C7_FilledCellsNonEmpty ==
  \A i \in Processed :
    Classified(i) =>
      \A c \in DerivedColumns :
        /\ result[i].fields[c] # <<>>
        /\ result[i].fields[c] # None
        /\ result[i].fields[c] # NaN
        /\ Strip(result[i].fields[c]) # <<>>

\* a classified row with a cell set to "N/A" by a lookup that found nothing next to a
\* resolved cell
C7_Witness ==
  /\ pc = "done"
  /\ \E i \in Processed :
       /\ Classified(i)
       /\ result[i].fields["Care Code"] = NA
       /\ result[i].fields["Hangtag"] \notin {NA, <<>>}

\* the five kinds of status
IsFinalStatus(s) ==
  \/ StartsWith(s, <<CrossMark>> \o <<" ","E","r","r","o","r",":"," ","S","t","y","l","e"," ","m","i","s","m","a","t","c","h"," ","(">>)
  \/ StartsWith(s, <<CrossMark>> \o <<" ","E","r","r","o","r",":"," ","U","n","k","n","o","w","n"," ","c","o","l","o","r","w","a","y"," ","'">>)
  \/ s = <<CheckMark>> \o <<" ","V","a","l","i","d","a","t","e","d">>
  \/ s = <<WarningSign, VariationSelector16>> \o <<" ","P","a","r","t","i","a","l">>
  \/ s = <<CrossMark>> \o <<" ","E","r","r","o","r",":"," ","N","o"," ","B","O","M"," ","d","a","t","a"," ","m","a","t","c","h","e","d">>

\* C8: the run returns one output row per input row, each with a status of one of the
\* five kinds, whatever the outcome of the rows before it; a step writes the status of
\* the one row the loop is at, and a status once written is never written again.
C8_OneStatusPerRow ==
  /\ [](pc = "done" =>
          /\ Len(result) = Len(comparison_df)
          /\ \A i \in 1..Len(result) :
               /\ result[i].style = comparison_df[i].style
               /\ result[i].color = comparison_df[i].color
               /\ IsFinalStatus(Status(i)))
  /\ [](pc = "loop" =>
          /\ idx <= Len(result)
          /\ \A i \in 1..Len(result) : i <= idx <=> Status(i) # <<>>)
  /\ [][pc = "loop" =>
          \A i \in 1..Len(result) : Status(i) # <<>> => result'[i] = result[i]]_vars

\* a run of two rows ended with the first row failed and the second row Validated
C8_Witness ==
  /\ pc = "done"
  /\ Len(result) = 2
  /\ StartsWith(Status(1), <<CrossMark>> \o <<" ","E","r","r","o","r">>)
  /\ Status(2) = <<CheckMark>> \o <<" ","V","a","l","i","d","a","t","e","d">>

\* a list in reversed order
Reverse(q) == [i \in 1..Len(q) |-> q[Len(q) + 1 - i]]

\* the cells the loop body writes for a row, and supplier_lookup after it
RowOutcome(row, lookup) ==
  IF IsStyleMismatch(BuyerStyle(row), BomStyle(bom_data))
  THEN [fields |-> StatusOnly(StyleMismatchStatus(BuyerStyle(row), BomStyle(bom_data))),
        supplier_lookup |-> lookup]
  ELSE IF normalize_colorway(ColorRaw(row), available_cw) = None
  THEN [fields |-> StatusOnly(UnknownColorwayStatus(ColorRaw(row))),
        supplier_lookup |-> lookup]
  ELSE FillRow(bom_data, components, care_codes, content_codes, lookup,
               normalize_colorway(ColorRaw(row), available_cw))

\* the cells of a whole run over rows, starting with supplier_lookup = lookup
RECURSIVE RunRows(_, _)
RunRows(rows, lookup) ==
  IF rows = <<>> THEN <<>>
  ELSE <<RowOutcome(Head(rows), lookup).fields>>
         \o RunRows(Tail(rows), RowOutcome(Head(rows), lookup).supplier_lookup)

\* C9: the cells a run writes for each input row equal the cells a run over the same
\* rows in reversed order, starting from the supplier_lookup of the parsed document,
\* writes for that row.
C9_RowOrderIndependent ==
  pc = "done" =>
    [i \in 1..Len(result) |-> result[i].fields]
      = Reverse(RunRows(Reverse(comparison_df), _build_supplier_lookup(doc.costing_detail)))

\* a run of two classified rows during which resolve_supplier added a supplier to
\* supplier_lookup
C9_Witness ==
  /\ pc = "done"
  /\ Len(result) = 2
  /\ Classified(1) /\ Classified(2)
  /\ comparison_df[1] # comparison_df[2]
  /\ supplier_lookup # _build_supplier_lookup(doc.costing_detail)

(***************************************************************************)
(* Properties of normalize_colorway: the strategies (SpecMatch)            *)
(***************************************************************************)
\* val of the call: the input as text, trimmed
MatchVal == Strip(Str(color_option_value))

\* the call gets past the guard
PassesGuard == ~IsGuardedInput(color_option_value) /\ available_colorways # <<>>

\* the positions of the candidates each strategy accepts for the input
ExactHits == {i \in 1..Len(available_colorways) : available_colorways[i] = MatchVal}

CaseHits == {i \in 1..Len(available_colorways) :
               Lower(available_colorways[i]) = Lower(MatchVal)}

PrefixHits ==
  {i \in 1..Len(available_colorways) :
     /\ _extract_numeric_prefix(MatchVal) # <<>>
     /\ _extract_numeric_prefix(available_colorways[i]) = _extract_numeric_prefix(MatchVal)}

OverlapHits ==
  {i \in 1..Len(available_colorways) :
     SeqToSet(_color_words(MatchVal)) \cap SeqToSet(_color_words(available_colorways[i])) # {}}

SubstringHits ==
  {i \in 1..Len(available_colorways) :
     \/ Contains(ColorName(available_colorways[i]), Lower(MatchVal))
     \/ Contains(Lower(MatchVal), ColorName(available_colorways[i]))}

TokenHits ==
  {i \in 1..Len(available_colorways) :
     RawWords(Lower(MatchVal)) \cap RawWords(Lower(available_colorways[i])) # {}}

\* the first candidate among the positions S
FirstOf(S) == available_colorways[Least(S)]

\* C11: the result is the hit of the first strategy, in the order exact, case-insensitive
\* exact, numeric prefix, colour-word overlap, substring, shared token, that has a hit;
\* a candidate with the input's numeric prefix wins over any candidate that only shares
\* colour words; the result is None when no strategy has a hit.
C11_FirstStrategyWins ==
  (match_pc = "returned" /\ PassesGuard) =>
    IF ExactHits # {} THEN matched = FirstOf(ExactHits)
    ELSE IF CaseHits # {} THEN matched = FirstOf(CaseHits)
    ELSE IF PrefixHits # {} THEN matched = FirstOf(PrefixHits)
    ELSE IF OverlapHits # {}
         THEN \E i \in OverlapHits : matched = available_colorways[i]
    ELSE IF SubstringHits # {} THEN matched = FirstOf(SubstringHits)
    ELSE IF TokenHits # {} THEN matched = FirstOf(TokenHits)
    ELSE matched = None

\* "010 Camel" resolved to "010-Black" by its prefix although the candidate before it,
\* "224-Camel Brown", shares the word camel
C11_Witness ==
  /\ match_pc = "returned"
  /\ color_option_value = <<"0","1","0"," ","C","a","m","e","l">>
  /\ available_colorways = <<<<"2","2","4","-","C","a","m","e","l"," ","B","r","o","w","n">>, <<"0","1","0","-","B","l","a","c","k">>>>
  /\ ExactHits = {} /\ CaseHits = {} /\ 1 \in OverlapHits
  /\ matched = <<"0","1","0","-","B","l","a","c","k">>


\* the cells validate_and_fill writes for a row of the given style whose Color/Option
\* text is the colorway key itself
CellsForKey(style, key) ==
  RowOutcome([style |-> style, color |-> key],
             _build_supplier_lookup(doc.costing_detail)).fields

\* C12: the result of normalize_colorway is None or one of the candidates, for every
\* input and candidate list; the key a classified row resolves to is a colorway key of
\* the document, and the cells written for the row are those of a row whose Color/Option
\* text is that key: the raw text takes no part in the lookups.
C12_KeyFromCandidates ==
  /\ match_pc = "returned" =>
        matched = None \/ \E i \in 1..Len(available_colorways) : matched = available_colorways[i]
  /\ \A i \in Processed :
        Classified(i) =>
          /\ \E k \in 1..Len(available_cw) : ResolvedColorway(i) = available_cw[k]
          /\ result[i].fields = CellsForKey(comparison_df[i].style, ResolvedColorway(i))

\* a row with the text "COL-224 CAMEL" got the content code and the label colour of the
\* key 224-Camel Brown
C12_Witness ==
  /\ pc = "done"
  /\ \E i \in Processed :
       /\ comparison_df[i].color = <<"C","O","L","-","2","2","4"," ","C","A","M","E","L">>
       /\ ResolvedColorway(i) = <<"2","2","4","-","C","a","m","e","l"," ","B","r","o","w","n">>
       /\ result[i].fields["Content Code"] = <<"A","B","C">>
       /\ result[i].fields["Main Label Color"] = <<"B","e","i","g","e">>


(***************************************************************************)
(* Properties of the supplier lookup (SpecFill)                            *)
(***************************************************************************)
\* a material code without its leading zeros
ZeroStripped(code) == LStripSet(code, {"0"})

\* the supplier a lookup of mat_code returns at the start of a run
Lookup(mat_code) == resolve_supplier(supplier_lookup, bom_data.costing_detail, mat_code)

\* C13: for every material code c that the costing rows registered with a supplier, the
\* lookup of c and the lookup of c without its leading zeros return the same supplier:
\* the registered one, as a lookup presents it.
C13_ZeroStrippedLookup ==
  pc = "call" =>
    \A c \in DOMAIN supplier_lookup :
      /\ Lookup(c) = _fix_sup(supplier_lookup[c])
      /\ ZeroStripped(c) # <<>> => Lookup(ZeroStripped(c)) = Lookup(c)


(***************************************************************************)
(* Properties of _rows_to_df (SpecNormalize, Spec)                         *)
(***************************************************************************)
\* C14: passing the header and the rows of a table _rows_to_df returned through
\* _rows_to_df again returns the same column names in the same order and the same rows
\* in the same order.
C14_NormalizeIdempotent ==
  [][norm_pc = "returned" => (norm_df'.columns = norm_df.columns /\ norm_df'.rows = norm_df.rows)]_vars


\* every row of table t has one cell per column and a cell that is not empty
IsRectangular(t) ==
  \A r \in 1..Len(t.rows) :
    /\ Len(t.rows[r]) = Len(t.columns)
    /\ \E c \in 1..Len(t.rows[r]) : t.rows[r][c] # <<>>

\* row out is the raw row in, padded with empty strings or cut to the width of out
IsFitted(out, in) ==
  \A c \in 1..Len(out) : out[c] = IF c <= Len(in) THEN in[c] ELSE <<>>

\* the section tables of a result of parse_bom_pdf
ResultTables == {parse_result[k] : k \in DOMAIN parse_result \ {"metadata", "supplier_lookup"}}

\* C15: every table _rows_to_df returns, and every section table of a result of
\* parse_bom_pdf (the stitched costing detail included), has in every row exactly as many
\* cells as it has columns and at least one cell that is not empty; each row _rows_to_df
\* returns is a raw row padded with empty strings or cut to the header's width.
C15_Rectangular ==
  /\ norm_pc \in {"returned", "again"} =>
        /\ IsRectangular(norm_df)
        /\ \A r \in 1..Len(norm_df.rows) :
              \E j \in 1..Len(norm_rows) : IsFitted(norm_df.rows[r], norm_rows[j])
  /\ parse_pc = "returned" => \A t \in ResultTables : IsRectangular(t)

\* a table of two columns returned for a raw table whose second row has one cell
C15_Witness ==
  /\ norm_pc = "returned"
  /\ norm_rows = <<<<<<"A">>, <<"A","_","1">>>>, <<<<"A">>>>>>
  /\ norm_df = DF(<<<<"A">>, <<"A","_","1">>>>, <<<<<<"A">>, <<>>>>>>)


(***************************************************************************)
(* Properties of interleaved calls of resolve_supplier (SpecRace)          *)
(***************************************************************************)
\* supplier_lookup as the parser built it, before any call of resolve_supplier
BuiltLookup == _build_supplier_lookup(doc.costing_detail)

\* supplier_lookup after the calls of the two callers one after the other, first a then b
CacheAfter(a, b) ==
  resolve_supplier_cache(
    resolve_supplier_cache(BuiltLookup, bom_data.costing_detail, workers[a].mat_code),
    bom_data.costing_detail, workers[b].mat_code)

\* C16: whatever the interleaving of the steps of two calls of resolve_supplier, each
\* call returns the supplier a call alone returns for its material code, every entry
\* the cache holds for a code that was not in it is the supplier the scan finds for that
\* code, and when both calls have returned the cache is the one the two calls leave when
\* run one after the other, in either order.
C16_RaceFree ==
  pc = "parallel" =>
    /\ \A w \in Workers :
          workers[w].pc = "returned" =>
            workers[w].ret = resolve_supplier(BuiltLookup, bom_data.costing_detail,
                                              workers[w].mat_code)
    /\ \A k \in DOMAIN supplier_lookup :
          IF k \in DOMAIN BuiltLookup THEN supplier_lookup[k] = BuiltLookup[k]
          ELSE supplier_lookup[k] = _find_supplier(bom_data.costing_detail, k)
    /\ (\A w \in Workers : workers[w].pc = "returned") =>
          /\ supplier_lookup = CacheAfter(1, 2)
          /\ supplier_lookup = CacheAfter(2, 1)

\* both callers asked for 097022, one scanned and wrote the cache and returned, the
\* other read the cache before that write and is about to write the same entry
C16_Witness ==
  /\ pc = "parallel"
  /\ doc = DocPartial
  /\ workers[1].mat_code = <<"0","9","7","0","2","2">> /\ workers[2].mat_code = <<"0","9","7","0","2","2">>
  /\ workers[1].pc = "returned" /\ workers[1].ret = <<"A","B"," ","T","a","g","s">>
  /\ workers[2].pc = "write" /\ workers[2].found = <<"A","B"," ","T","a","g","s">>
  /\ supplier_lookup # BuiltLookup


(***************************************************************************)
(* Properties of normalize_colorway: overlap and prefix (SpecMatch)        *)
(***************************************************************************)
\* the colour words of the input and of candidate i
InputWords == SeqToSet(_color_words(MatchVal))

CandidateWords(i) == SeqToSet(_color_words(available_colorways[i]))

\* |overlap| of candidate i
OverlapCount(i) == Cardinality(InputWords \cap CandidateWords(i))

\* score of candidate i >= score of candidate j, the score being |overlap| / |candidate tokens|
ScoreAtLeast(i, j) ==
  OverlapCount(i) * Cardinality(CandidateWords(j))
    >= OverlapCount(j) * Cardinality(CandidateWords(i))

\* the positions of the candidates with the highest score
TopScored == {i \in OverlapHits : \A j \in OverlapHits : ScoreAtLeast(i, j)}

\* C17: when the overlap strategy decides (no exact, case-insensitive or numeric-prefix
\* hit, and a candidate shares a colour word with the input), the result is the first
\* candidate in the list among those whose score |overlap| / |candidate tokens| is highest.
C17_OverlapFirstOfTies ==
  (match_pc = "returned" /\ PassesGuard /\ ExactHits = {} /\ CaseHits = {}
     /\ PrefixHits = {} /\ OverlapHits # {}) =>
    matched = FirstOf(TopScored)


\* the number a string of decimal digits denotes
RECURSIVE NumberOf(_)
NumberOf(digits) ==
  IF digits = <<>> THEN 0
  ELSE NumberOf(Take(digits, Len(digits) - 1)) * 10
         + (CHOOSE d \in 0..9 : <<"0", "1", "2", "3", "4", "5", "6", "7", "8", "9">>[d + 1]
                                   = digits[Len(digits)])

\* the positions of the candidates whose numeric prefix denotes the number the input's does
NumericHits ==
  {i \in 1..Len(available_colorways) :
     /\ _extract_numeric_prefix(MatchVal) # <<>>
     /\ _extract_numeric_prefix(available_colorways[i]) # <<>>
     /\ NumberOf(_extract_numeric_prefix(available_colorways[i]))
          = NumberOf(_extract_numeric_prefix(MatchVal))}

\* C18: when no candidate equals the input exactly or up to case and some candidate's
\* numeric prefix is numerically equal to the input's, leading zeros aside, the result is
\* the first such candidate.
C18_NumericPrefixEqual ==
  (match_pc = "returned" /\ PassesGuard /\ ExactHits = {} /\ CaseHits = {}
     /\ NumericHits # {}) =>
    matched = FirstOf(NumericHits)


(***************************************************************************)
(* Properties of the page loop of parse_bom_pdf (SpecParse)                *)
(***************************************************************************)
\* the heading of a page: the first line of its text that is not blank
Heading(page) ==
  LET ls == IF page.text = None THEN <<>> ELSE Lines(page.text)
      NotBlank(l) == Strip(l) # <<>>
  IN  IF SelectSeq(ls, NotBlank) = <<>> THEN <<>> ELSE Head(SelectSeq(ls, NotBlank))

\* the sections other than the two costing sections
PlainSections ==
  {"color_bom", "colorless_bom", "color_specification", "care_report", "content_report",
   "measurements", "sales_sample", "hangtag_report"}

\* the number of tables of a page that are not empty
TableCount(page) == Cardinality({k \in 1..Len(PageTables(page)) : PageTables(page)[k] # <<>>})

\* C19: a page whose heading line names a section other than costing has its tables
\* filed under that section, whatever words the lines below the heading hold, and adds
\* nothing to the costing detail header and rows.
C19_HeadingDecides ==
  [][(parse_pc = "pages" /\ page_no' = page_no + 1
        /\ _detect_section(Heading(pdf_pages[page_no + 1])) \in PlainSections
        /\ TableCount(pdf_pages[page_no + 1]) > 0) =>
       /\ _detect_section(Heading(pdf_pages[page_no + 1])) \in DOMAIN tables_by_section'
       /\ Len(tables_by_section'[_detect_section(Heading(pdf_pages[page_no + 1]))])
            = Len(Get(tables_by_section, _detect_section(Heading(pdf_pages[page_no + 1])), <<>>))
                + TableCount(pdf_pages[page_no + 1])
       /\ costing_detail_header' = costing_detail_header
       /\ costing_detail_rows' = costing_detail_rows]_vars


\* all cleaned rows of the tables of a page, in order
RECURSIVE PageRows(_, _)
PageRows(page_tables, k) ==
  IF k > Len(page_tables) THEN <<>>
  ELSE _clean_table(page_tables[k]) \o PageRows(page_tables, k + 1)

\* a cleaned row is a title banner
IsBanner(row) ==
  /\ Len(row) > 0
  /\ Contains(Lower(row[1]), <<"c","o","s","t","i","n","g"," ","b","o","m">>) \/ Contains(Lower(row[1]), <<"l","i","n","e"," ","s","l","o","t">>)

\* the data rows of a costing detail page under the given header: the rows that are not
\* the header again, not a title banner, and have two or more cells that are not empty
DataRows(page, header) ==
  LET IsData(row) == row # header /\ ~IsBanner(row) /\ NonEmptyCount(row) >= 2
      kept == SelectSeq(PageRows(PageTables(page), 1), IsData)
  IN  [i \in 1..Len(kept) |-> FitRow(kept[i], Len(header))]

\* the page is a costing detail page by its heading and by its whole text
IsCostingDetailPage(page) ==
  /\ page.text # None
  /\ _detect_section(Heading(page)) = "costing_detail"
  /\ _detect_section(page.text) = "costing_detail"

\* C20: at every costing detail page, a header that is known is kept, and once a header
\* is known the page adds to the stitched rows, after the rows of the pages before it,
\* exactly its data rows: every row but the repeated header, the title banners and the
\* rows with fewer than two non-empty cells.
C20_Stitching ==
  [][(parse_pc = "pages" /\ page_no' = page_no + 1
        /\ IsCostingDetailPage(pdf_pages[page_no + 1])) =>
       /\ costing_detail_header # NoHeader => costing_detail_header' = costing_detail_header
       /\ costing_detail_header' # NoHeader =>
            costing_detail_rows' = costing_detail_rows
                                     \o DataRows(pdf_pages[page_no + 1], costing_detail_header')]_vars


(***************************************************************************)
(* Properties of the page loop: a page whose extraction raises (SpecParse)  *)
(***************************************************************************)
\* C21: a page whose extract_tables raises is skipped: the step of the page loop that
\* handles it files no table under any section and adds nothing to the costing detail
\* header and rows.
C21_RaisingPageSkipped ==
  [][(parse_pc = "pages" /\ page_no' = page_no + 1 /\ pdf_pages[page_no + 1].raises) =>
       /\ tables_by_section' = tables_by_section
       /\ costing_detail_header' = costing_detail_header
       /\ costing_detail_rows' = costing_detail_rows]_vars


(***************************************************************************)
(* Properties of the column names of a normalized table (SpecNormalize)    *)
(***************************************************************************)
\* C22: the column names of every table _rows_to_df returns are pairwise distinct.
C22_DistinctColumns ==
  norm_pc = "returned" =>
    \A i, j \in 1..Len(norm_df.columns) : i # j => norm_df.columns[i] # norm_df.columns[j]


(***************************************************************************)
(* Properties of the supplier index (SpecParse)                            *)
(***************************************************************************)
\* the position of the column of table df with the given lower-case name, 0 if none
ColumnNamed(df, nm) ==
  IF \E c \in 1..Len(df.columns) : Strip(Lower(df.columns[c])) = nm
  THEN Least({c \in 1..Len(df.columns) : Strip(Lower(df.columns[c])) = nm})
  ELSE 0

\* the usable suppliers of the rows of the costing detail table of the result whose
\* Material cell holds the code
SuppliersOf(code) ==
  LET df == parse_result["costing_detail"]
      mc == ColumnNamed(df, <<"m","a","t","e","r","i","a","l">>)
      sc == ColumnNamed(df, <<"s","u","p","p","l","i","e","r">>)
  IN  IF mc = 0 \/ sc = 0 THEN {}
      ELSE {_clean_supplier(Strip(df.rows[r][sc])) :
              r \in {q \in 1..Len(df.rows) :
                       /\ FirstCode(Strip(df.rows[q][mc])) = code
                       /\ UsableSupplier(_clean_supplier(Strip(df.rows[q][sc])))}}

\* C23: in a result of parse_bom_pdf the supplier stored for a material code is one of
\* the suppliers of the costing rows with that code and none of them is longer.
C23_LongestSupplierKept ==
  parse_pc = "returned" =>
    \A code \in DOMAIN parse_result["supplier_lookup"] :
      /\ parse_result["supplier_lookup"][code] \in SuppliersOf(code)
      /\ \A s \in SuppliersOf(code) : Len(s) <= Len(parse_result["supplier_lookup"][code])


(***************************************************************************)
(* Properties of the supplier-name cleanup (SpecFill)                      *)
(***************************************************************************)
\* a name of two or more words of four or more characters each, one space between them
IsOrdinaryName(s) ==
  /\ Len(Tokens(s, {" "})) >= 2
  /\ \A i \in 1..Len(Tokens(s, {" "})) : Len(Tokens(s, {" "})[i]) >= 4
  /\ Strip(s) = s
  /\ ~Contains(s, <<" ", " ">>)

\* the rows of the costing detail table with a material code and an ordinary supplier name
OrdinaryRows ==
  LET df == bom_data.costing_detail
      mc == ColumnNamed(df, <<"m","a","t","e","r","i","a","l">>)
      sc == ColumnNamed(df, <<"s","u","p","p","l","i","e","r">>)
  IN  IF mc = 0 \/ sc = 0 THEN {}
      ELSE {r \in 1..Len(df.rows) :
              FirstCode(Strip(df.rows[r][mc])) # <<>> /\ IsOrdinaryName(Strip(df.rows[r][sc]))}

\* C24: a supplier name made of several ordinary words is stored in the supplier index
\* as it is written in the costing row, with every space, and a lookup of its material
\* code returns it unchanged.
C24_OrdinaryWordsKept ==
  pc = "call" =>
    \A r \in OrdinaryRows :
      LET df == bom_data.costing_detail
          code == FirstCode(Strip(df.rows[r][ColumnNamed(df, <<"m","a","t","e","r","i","a","l">>)]))
          name == Strip(df.rows[r][ColumnNamed(df, <<"s","u","p","p","l","i","e","r">>)])
      IN  /\ Get(supplier_lookup, code, <<>>) = name
          /\ Lookup(code) = name


(***************************************************************************)
(* Properties of extract_content_codes (SpecContent)                       *)
(***************************************************************************)
\* row r of the content report holds a code block
IsBlockRow(r) == RowContentBlock(bom_data.content_report, r).content_code # <<>>

\* the most recent block found before row r: the block of the last block row above it,
\* the block of the column names when there is none
BlockBefore(r) ==
  IF \E q \in 1..(r - 1) : IsBlockRow(q)
  THEN RowContentBlock(bom_data.content_report,
                       CHOOSE q \in 1..(r - 1) :
                         IsBlockRow(q) /\ \A m \in (q + 1)..(r - 1) : ~IsBlockRow(m))
  ELSE HeaderContentBlock(bom_data.content_report)

\* the colorway rows that have a block before them
RegisteredRows ==
  {r \in 1..Len(bom_data.content_report.rows) :
     /\ ~IsBlockRow(r)
     /\ RowColorwayNum(bom_data.content_report, r) # None
     /\ BlockBefore(r).content_code # <<>>}

\* C25: the content index has an entry for exactly the colorway numbers of the colorway
\* rows that have a code block before them (a block row above or the column-name
\* block), and the entry of a number is the most recent block before the last row with
\* that number; colorway rows before any block give no entry.
C25_CarryForward ==
  pc \in {"loop", "done"} =>
    /\ DOMAIN content_codes =
         {RowColorwayNum(bom_data.content_report, r) : r \in RegisteredRows}
    /\ \A r \in RegisteredRows :
         (\A q \in RegisteredRows :
            q > r => RowColorwayNum(bom_data.content_report, q)
                       # RowColorwayNum(bom_data.content_report, r))
         => content_codes[RowColorwayNum(bom_data.content_report, r)] = BlockBefore(r)

\* 010 was registered with the column-name block SRH and, met again after the block
\* ABC, is registered with ABC
C25_Witness ==
  /\ pc = "done"
  /\ HeaderContentBlock(bom_data.content_report).content_code = <<"S","R","H">>
  /\ bom_data.content_report.rows =
       <<<<<<>>, <<"0","1","0">>>>, <<<<"C","O","N","T","E","N","T"," ","C","O","D","E",":"," ","A","B","C"," ","L","i","n","i","n","g",":"," ","S","i","l","k">>, <<>>>>, <<<<>>, <<"0","1","0">>>>>>
  /\ DOMAIN content_codes = {<<"0","1","0">>}
  /\ content_codes[<<"0","1","0">>].content_code = <<"A","B","C">>


(***************************************************************************)
(* Properties of the material code of a component (SpecCodes)              *)
(***************************************************************************)
\* the rows of the Color BOM table that name the component
RowsOfComponent(name) ==
  {r \in 1..Len(bom_data.color_bom.rows) : Strip(bom_data.color_bom.rows[r][1]) = name}

\* the three tiers for the component: the material code stored in the component index,
\* the first code token of the Details cell, the first code token of the colorway cells
\* in column order
StoredCode(name) == Get(components, name, EmptyComp).material_code

DescriptionCode(name) ==
  LET r == CHOOSE q \in RowsOfComponent(name) : TRUE
      dc == ColPos(bom_data.color_bom, <<"D","e","t","a","i","l","s">>)
  IN  IF RowsOfComponent(name) = {} \/ dc = 0 THEN <<>>
      ELSE FirstCode(Strip(bom_data.color_bom.rows[r][dc]))

ColorwayCellCode(name) ==
  LET df == bom_data.color_bom
      r == CHOOSE q \in RowsOfComponent(name) : TRUE
      hits == {c \in 1..Len(df.columns) :
                 IsColorwayCol(Strip(df.columns[c])) /\ FirstCode(df.rows[r][c]) # <<>>}
  IN  IF RowsOfComponent(name) = {} \/ hits = {} THEN <<>>
      ELSE FirstCode(df.rows[r][Least(hits)])

\* the code the three tiers give in their order of priority, "" when none gives one
TieredCode(name) ==
  IF StoredCode(name) # <<>> THEN StoredCode(name)
  ELSE IF DescriptionCode(name) # <<>> THEN DescriptionCode(name)
  ELSE ColorwayCellCode(name)

ExactEntries ==
  {k \in 1..Len(COMPONENT_ALIASES) :
     \/ Lower(Strip(component_name)) = Lower(COMPONENT_ALIASES[k].canonical)
     \/ \E a \in 1..Len(COMPONENT_ALIASES[k].aliases) :
          Lower(Strip(component_name)) = COMPONENT_ALIASES[k].aliases[a]}

\* C27: a name that equals, case aside, a canonical name or an alias of the table
\* resolves to the canonical name of that entry, whatever substrings of it are aliases
\* of entries before it.
C27_ExactBeforeSubstring ==
  (component_pc = "returned" /\ component_name # None /\ ExactEntries # {}) =>
    \E k \in ExactEntries : component_result = COMPONENT_ALIASES[k].canonical


(***************************************************************************)
(* Properties of the label selection tokens (SpecLabels)                   *)
(***************************************************************************)
\* the lookup name and the display id of a selection token: the parts before and after
\* its last " - ", the token whole and no id when it has no " - "
LookupName(sel) ==
  IF sel = None \/ sel = <<>> THEN <<>>
  ELSE IF Contains(sel, <<" ", "-", " ">>)
       THEN Strip(Take(sel, LastIndexOf(sel, <<" ", "-", " ">>) - 1))
       ELSE sel

DisplayId(sel) ==
  IF sel = None \/ sel = <<>> \/ ~Contains(sel, <<" ", "-", " ">>) THEN <<>>
  ELSE Strip(Drop(sel, LastIndexOf(sel, <<" ", "-", " ">>) + 2))

\* the cell of the Color BOM in the row of the component and the column of the colorway,
\* <<>> when the table has no such row or column
ColorBomCell(name, cw) ==
  LET df == bom_data.color_bom
      rows == {r \in 1..Len(df.rows) : df.rows[r][1] = name}
  IN  IF rows = {} \/ ColPos(df, cw) = 0 THEN <<>>
      ELSE Strip(Str(df.rows[Least(rows)][ColPos(df, cw)]))

\* C28: in every filled row the main label's display id is the part of the selection
\* token after its last " - ", and both lookups of the label use the part before it:
\* the supplier is the one of the material code of the component of that name, and the
\* colour is the Color BOM cell of the row of that name when that cell is a colour.
C28_OneLookupName ==
  \A i \in Processed :
    Classified(i) =>
      LET sel == bom_data.selected_main_label_comp
          name == LookupName(sel)
          cell == ColorBomCell(name, ResolvedColorway(i))
      IN  /\ DisplayId(sel) # <<>> => result[i].fields["Main Label"] = DisplayId(sel)
          /\ name # <<>> =>
               result[i].fields["Main Label Supplier"] =
                 resolve_supplier(supplier_lookup, bom_data.costing_detail,
                                  get_code(components, name))
          /\ (name # <<>> /\ UsableColor(cell)) =>
               result[i].fields["Main Label Color"] = cell


(***************************************************************************)
(* Properties of the inputs and the supplier cache of a fill (SpecCache)   *)
(***************************************************************************)
\* the codes whose entry of the supplier cache a step adds or changes
CacheWritten ==
  {k \in DOMAIN supplier_lookup' :
     k \notin DOMAIN supplier_lookup \/ supplier_lookup'[k] # supplier_lookup[k]}

\* C29: no step of validate_and_fill changes the caller's comparison rows or the
\* document's section tables and selections, and no step after the indexes are built
\* changes the component, care and content indexes; a step changes the supplier cache
\* only by entries for codes that had no usable entry, each the result of the full scan
\* of the costing table for that code, and every non-empty entry stays as it was.
C29_NoSideEffects ==
  [][/\ comparison_df' = comparison_df
     /\ doc' = doc
     /\ bom_data' = bom_data
     /\ pc # "call" => /\ components' = components
                       /\ care_codes' = care_codes
                       /\ content_codes' = content_codes
     /\ \A k \in CacheWritten :
          /\ ~UsableSupplier(Get(supplier_lookup, k, <<>>))
          /\ supplier_lookup'[k] = _find_supplier(bom_data.costing_detail, k)
     /\ \A k \in DOMAIN supplier_lookup :
          supplier_lookup[k] # <<>> =>
            k \in DOMAIN supplier_lookup' /\ supplier_lookup'[k] = supplier_lookup[k]]_vars

\* a finished fill of two rows whose cache holds, next to every entry it was called
\* with, an entry for a code the parse-time lookup did not have
C29_Witness ==
  /\ pc = "done"
  /\ Len(result) = 2
  /\ \A k \in DOMAIN _build_supplier_lookup(doc.costing_detail) :
       /\ k \in DOMAIN supplier_lookup
       /\ supplier_lookup[k] = _build_supplier_lookup(doc.costing_detail)[k]
  /\ \E k \in DOMAIN supplier_lookup :
       /\ k \notin DOMAIN _build_supplier_lookup(doc.costing_detail)
       /\ supplier_lookup[k] = _find_supplier(doc.costing_detail, k)
  /\ _build_supplier_lookup(doc.costing_detail) # EmptyDict


(***************************************************************************)
(* Properties of the colorway keys of a document (SpecColorways)           *)
(***************************************************************************)
\* the colorway columns of the Color BOM, which are the colorways of every component
\* of the component index
IndexColumns == {c \in SeqToSet(bom_data.color_bom.columns) : IsColorwayCol(c)}

\* the rows of the Color BOM whose Component cell names the SAP Material Code
SapRowsOf(df) ==
  IF ColPos(df, <<"C","o","m","p","o","n","e","n","t">>) = 0 THEN {}
  ELSE {r \in 1..Len(df.rows) :
          Contains(Lower(df.rows[r][ColPos(df, <<"C","o","m","p","o","n","e","n","t">>)]),
                   <<"s","a","p"," ","m","a","t","e","r","i","a","l"," ","c","o","d","e">>)}

\* the colorway columns with a non-empty cell in the first SAP Material Code row
SapColumns ==
  LET df == bom_data.color_bom
  IN  IF SapRowsOf(df) = {} THEN {}
      ELSE {c \in IndexColumns : Strip(df.rows[Least(SapRowsOf(df))][ColPos(df, c)]) # <<>>}

\* the Color/Option text of row i
ColorText(i) == Strip(Str(comparison_df[i].color))

\* row i ended with the status "Error: Unknown colorway"
IsUnknownColorway(i) == Status(i) = UnknownColorwayStatus(ColorText(i)) /\ NothingFilled(i)

\* C30 as stated: the colorway keys of a fill are the colorway columns with a non-empty
\* SAP Material Code cell; a row whose text is such a column resolves to it, every row
\* that resolves resolves to such a column, and a row whose text is a colorway column
\* without a SAP value ends with "Unknown colorway".
C30_SapColumnsOnly ==
  /\ pc # "call" => SeqToSet(available_cw) = SapColumns
  /\ \A i \in Processed :
       ~StylesDisagree(i) =>
         /\ ColorText(i) \in SapColumns => ResolvedColorway(i) = ColorText(i)
         /\ ~IsUnknownColorway(i) => ResolvedColorway(i) \in SapColumns
         /\ ColorText(i) \in IndexColumns \ SapColumns => IsUnknownColorway(i)

\* C30 amended: as stated, except that a row whose text is a colorway column without a
\* SAP value never resolves to that column: it ends with "Unknown colorway" unless its
\* text resolves to another column, one that has a SAP value; when no column has a SAP
\* value every row ends with "Unknown colorway".
C30_SapColumnsOnlyAmended ==
  /\ pc # "call" => SeqToSet(available_cw) = SapColumns
  /\ \A i \in Processed :
       ~StylesDisagree(i) =>
         /\ ColorText(i) \in SapColumns => ResolvedColorway(i) = ColorText(i)
         /\ ~IsUnknownColorway(i) => ResolvedColorway(i) \in SapColumns
         /\ ColorText(i) \in IndexColumns \ SapColumns =>
              \/ IsUnknownColorway(i)
              \/ ResolvedColorway(i) \in SapColumns \ {ColorText(i)}
         /\ SapColumns = {} => IsUnknownColorway(i)

\* the row "224-Camel Brown" of a document whose column 224-Camel Brown has components
\* but an empty SAP cell, next to a column with a SAP value, ended as unknown colorway
C30_Witness ==
  /\ pc = "done"
  /\ Len(result) = 1
  /\ ColorText(1) = <<"2","2","4","-","C","a","m","e","l"," ","B","r","o","w","n">>
  /\ ColorText(1) \in IndexColumns \ SapColumns
  /\ SapColumns # {}
  /\ ColorText(1) \in DOMAIN Get(components, <<"L","a","b","e","l"," ","1">>, EmptyComp).colorways
  /\ IsUnknownColorway(1)


====
